---- MODULE Spec2Model ----
(***************************************************************************)
(* Model of the telemetry acquisition core of TeslaVehicleHealth:          *)
(*   VehicleWakeService (wake / poll orchestration),                       *)
(*   ExpoTeslaAuthService.getVehicleData / wakeUpVehicle (fetch primitive),*)
(*   EnhancedBatteryHealthService.getBatteryHealthAssessment,              *)
(*   TeslaMateAlgorithmService.getBatteryHealthComparison,                 *)
(*   AlgorithmComparisonScreen.runComparison.                              *)
(* Every await of the source is a suspension point: pc names the await the *)
(* run is suspended at, and one action is the resolution of that await     *)
(* together with the synchronous code that follows it up to the next one.  *)
(* Time is in milliseconds; Date.now() is the variable now.                *)
(***************************************************************************)
EXTENDS Integers, Sequences, FiniteSets, TLC

(***************************************************************************)
(* Bounds of the model (not program constants).                            *)
(***************************************************************************)
MaxLatencySteps == 1

(***************************************************************************)
(* Program constants.                                                      *)
(***************************************************************************)
wakeUpTimeout == 120000

checkInterval == 5000

rewakeModulo == 30000

wakeSettleMs == 3000

\* latencies of a network call, in steps of the settle time
Latencies == {k * wakeSettleMs : k \in 0..MaxLatencySteps}

(***************************************************************************)
(* Error messages are sequences of tokens; String.prototype.includes is    *)
(* the contiguous-subsequence test on them.                                *)
(***************************************************************************)
Includes(msg, needle) ==
  \E i \in 1..(Len(msg) - Len(needle) + 1) :
     SubSeq(msg, i, i + Len(needle) - 1) = needle

NoError == << >>

HttpStatuses == {"408", "500"}

ErrorBodies ==
  { <<"vehicle", "unavailable", ":", "vehicle", "is", "offline", "or", "asleep">>,
    <<"internal", "error">>,
    << >> }

\* ExpoTeslaAuthService.getVehicleData: `Get vehicle data error: ${status} - ${errorText}`
HttpErrorMessage(status, body) ==
  <<"Get", "vehicle", "data", "error", ":", status, "-">> \o body

\* the rejection of fetch() itself (no response)
NetworkErrorMessage == <<"Network", "request", "failed">>

\* ExpoTeslaAuthService.getValidAccessToken
NoTokensMessage == <<"No", "tokens", "available", ".", "Please", "authenticate", "first", ".">>

DataErrorMessages ==
  {HttpErrorMessage(s, b) : s \in HttpStatuses, b \in ErrorBodies} \cup {NetworkErrorMessage}

AsleepMessage == <<"Vehicle", "is", "asleep", "or", "offline">>

TimeoutMessage == <<"Vehicle", "wake-up", "timeout", "-", "please", "try", "again", "later">>

WakeNeedles == { <<"vehicle", "unavailable">>, <<"asleep">>, <<"offline">>, <<"408">> }

\* a plausible slip: every failure of the fetch is taken for a sleeping device
NeedsWake_any(msg) == TRUE

\* VehicleWakeService.tryGetVehicleData, the classification in its catch
NeedsWake(msg) ==
  \/ Includes(msg, <<"vehicle", "unavailable">>)
  \/ Includes(msg, <<"asleep">>)
  \/ Includes(msg, <<"offline">>)
  \/ Includes(msg, <<"408">>)

(***************************************************************************)
(* Snapshots: what GET vehicle_data resolves to (data.response).  A 200    *)
(* body without a response member makes it undefined: present = FALSE.     *)
(***************************************************************************)
NoData == [present |-> FALSE, battery_level |-> 0]

LiveSnapshot == [present |-> TRUE, battery_level |-> 78]

DeviceSnapshots ==
  { NoData, LiveSnapshot, [present |-> TRUE, battery_level |-> 77] }

(***************************************************************************)
(* WakeUpResult values                                                     *)
(***************************************************************************)
NoResult ==
  [set |-> FALSE, success |-> FALSE, isOnline |-> FALSE, vehicleData |-> NoData,
   error |-> NoError, timeoutReached |-> FALSE]

OnlineResult(data) ==
  [set |-> TRUE, success |-> TRUE, isOnline |-> TRUE, vehicleData |-> data,
   error |-> NoError, timeoutReached |-> FALSE]

ErrorResult(msg) ==
  [set |-> TRUE, success |-> FALSE, isOnline |-> FALSE, vehicleData |-> NoData,
   error |-> msg, timeoutReached |-> FALSE]

TimeoutResult ==
  [set |-> TRUE, success |-> FALSE, isOnline |-> FALSE, vehicleData |-> NoData,
   error |-> TimeoutMessage, timeoutReached |-> TRUE]

(***************************************************************************)
(* JavaScript numbers.  A finite double is kept as the exact rational n/d  *)
(* in lowest terms with d > 0; Infinity and -Infinity are kind "inf" with  *)
(* the sign in n; NaN is kind "nan".  The operators follow the arithmetic  *)
(* of the language on these values.                                        *)
(***************************************************************************)
Abs(x) == IF x < 0 THEN 0 - x ELSE x

RECURSIVE Gcd(_, _)
Gcd(a, b) == IF b = 0 THEN a ELSE Gcd(b, a % b)

Fin(n, d) ==
  LET g == Gcd(Abs(n), Abs(d))
      s == IF d < 0 THEN 0 - 1 ELSE 1
  IN [k |-> "fin", n |-> (s * n) \div g, d |-> Abs(d) \div g]

Num(i) == Fin(i, 1)

Zero == Num(0)

NaN == [k |-> "nan", n |-> 0, d |-> 1]

PosInfinity == [k |-> "inf", n |-> 1, d |-> 1]

NegInfinity == [k |-> "inf", n |-> 0 - 1, d |-> 1]

IsNaN(a) == a.k = "nan"

IsFinite(a) == a.k = "fin"

Sign(a) == IF a.n > 0 THEN 1 ELSE IF a.n < 0 THEN 0 - 1 ELSE 0

Inf(sign) == IF sign < 0 THEN NegInfinity ELSE PosInfinity

Neg(a) == [a EXCEPT !.n = 0 - a.n]

\* a + b
Add(a, b) ==
  IF IsNaN(a) \/ IsNaN(b) THEN NaN
  ELSE IF a.k = "inf" /\ b.k = "inf" THEN (IF a.n = b.n THEN a ELSE NaN)
  ELSE IF a.k = "inf" THEN a
  ELSE IF b.k = "inf" THEN b
  ELSE LET g == Gcd(a.d, b.d)
       IN Fin(a.n * (b.d \div g) + b.n * (a.d \div g), (a.d \div g) * b.d)

\* a - b
Sub(a, b) == Add(a, Neg(b))

\* an/ad * bn/bd, common factors taken out before the products are formed
MulFractions(an, ad, bn, bd) ==
  LET g == IF an = 0 THEN Abs(bd) ELSE Gcd(Abs(an), Abs(bd))
      h == IF bn = 0 THEN Abs(ad) ELSE Gcd(Abs(bn), Abs(ad))
  IN Fin((an \div g) * (bn \div h), (ad \div h) * (bd \div g))

\* a * b
Mul(a, b) ==
  IF IsNaN(a) \/ IsNaN(b) THEN NaN
  ELSE IF a.k = "inf" \/ b.k = "inf"
         THEN (IF Sign(a) * Sign(b) = 0 THEN NaN ELSE Inf(Sign(a) * Sign(b)))
  ELSE MulFractions(a.n, a.d, b.n, b.d)

\* a / b
Div(a, b) ==
  IF IsNaN(a) \/ IsNaN(b) THEN NaN
  ELSE IF a.k = "inf" /\ b.k = "inf" THEN NaN
  ELSE IF a.k = "inf" THEN Inf(Sign(a) * (IF Sign(b) < 0 THEN 0 - 1 ELSE 1))
  ELSE IF b.k = "inf" THEN Zero
  ELSE IF b.n = 0 THEN (IF a.n = 0 THEN NaN ELSE Inf(Sign(a)))
  ELSE MulFractions(a.n, a.d, b.d, b.n)

\* floor of p/q for q > 0
FloorDiv(p, q) == IF p >= 0 THEN p \div q ELSE 0 - ((0 - p + q - 1) \div q)

RECURSIVE LtFractions(_, _, _, _)
\* an/ad < bn/bd for ad, bd > 0, by integer parts and then the reciprocals of
\* the remainders, so that no product leaves the integers of the checker
LtFractions(an, ad, bn, bd) ==
  LET qa == FloorDiv(an, ad)
      qb == FloorDiv(bn, bd)
      ra == an - qa * ad
      rb == bn - qb * bd
  IN IF qa # qb THEN qa < qb
     ELSE IF rb = 0 THEN FALSE
     ELSE IF ra = 0 THEN TRUE
     ELSE LtFractions(bd, rb, ad, ra)

\* a < b
Lt(a, b) ==
  IF IsNaN(a) \/ IsNaN(b) THEN FALSE
  ELSE IF a.k = "inf" THEN a.n < 0 /\ ~(b.k = "inf" /\ b.n < 0)
  ELSE IF b.k = "inf" THEN b.n > 0
  ELSE LtFractions(a.n, a.d, b.n, b.d)

\* a > b
Gt(a, b) == Lt(b, a)

\* a <= b
Le(a, b) == ~IsNaN(a) /\ ~IsNaN(b) /\ ~Lt(b, a)

\* a >= b
Ge(a, b) == Le(b, a)

\* Math.min(a, b), Math.max(a, b): NaN if either argument is
MathMin(a, b) == IF IsNaN(a) \/ IsNaN(b) THEN NaN ELSE IF Lt(b, a) THEN b ELSE a

MathMax(a, b) == IF IsNaN(a) \/ IsNaN(b) THEN NaN ELSE IF Lt(a, b) THEN b ELSE a

\* Math.round(a): the integer nearest to a, halves towards +Infinity
MathRound(a) == IF IsFinite(a) THEN Num(FloorDiv(2 * a.n + a.d, 2 * a.d)) ELSE a

\* the truth value of a number: false for 0 and NaN
TruthyNumber(a) == ~IsNaN(a) /\ a.n # 0

\* a || b on numbers
OrElse(a, b) == IF TruthyNumber(a) THEN a ELSE b

\* Number.isInteger(a)
IsInteger(a) == IsFinite(a) /\ a.d = 1

(***************************************************************************)
(* JavaScript values as they arrive in the raw snapshot (data.response).   *)
(* A string is the sequence of its characters.                             *)
(***************************************************************************)
JsUndefined == [t |-> "undefined", num |-> Zero, str |-> << >>]

JsNull == [t |-> "null", num |-> Zero, str |-> << >>]

JsNumber(a) == [t |-> "number", num |-> a, str |-> << >>]

JsString(s) == [t |-> "string", num |-> Zero, str |-> s]

\* an object that is not a string or a number, {} for instance
JsObject == [t |-> "object", num |-> Zero, str |-> << >>]

Digits == <<"0", "1", "2", "3", "4", "5", "6", "7", "8", "9">>

IsDigit(c) == \E i \in 1..10 : Digits[i] = c

DigitValue(c) == (CHOOSE i \in 1..10 : Digits[i] = c) - 1

AllDigits(s) == Len(s) > 0 /\ \A i \in 1..Len(s) : IsDigit(s[i])

RECURSIVE DigitsValue(_)
DigitsValue(s) ==
  IF s = << >> THEN 0
  ELSE 10 * DigitsValue(SubSeq(s, 1, Len(s) - 1)) + DigitValue(s[Len(s)])

RECURSIVE Pow10(_)
Pow10(k) == IF k = 0 THEN 1 ELSE 10 * Pow10(k - 1)

InfinityChars == <<"I", "n", "f", "i", "n", "i", "t", "y">>

\* the numeric value of an unsigned decimal literal (digits, or digits.digits)
UnsignedToNumber(s) ==
  IF AllDigits(s) THEN Num(DigitsValue(s))
  ELSE IF s = InfinityChars THEN PosInfinity
  ELSE IF \E i \in 2..(Len(s) - 1) :
             /\ s[i] = "."
             /\ AllDigits(SubSeq(s, 1, i - 1))
             /\ AllDigits(SubSeq(s, i + 1, Len(s)))
         THEN LET i == CHOOSE j \in 2..(Len(s) - 1) : s[j] = "."
                  frac == SubSeq(s, i + 1, Len(s))
              IN Fin(DigitsValue(SubSeq(s, 1, i - 1)) * Pow10(Len(frac)) + DigitsValue(frac),
                     Pow10(Len(frac)))
  ELSE NaN

\* Number(string)
StringToNumber(s) ==
  IF s = << >> THEN Zero
  ELSE IF s[1] = "-" THEN Neg(UnsignedToNumber(Tail(s)))
  ELSE UnsignedToNumber(s)

\* Number(value)
ToNumber(v) ==
  IF v.t = "number" THEN v.num
  ELSE IF v.t = "null" THEN Zero
  ELSE IF v.t = "string" THEN StringToNumber(v.str)
  ELSE NaN

\* the truth value of a JavaScript value
Truthy(v) ==
  IF v.t = "number" THEN TruthyNumber(v.num)
  ELSE IF v.t = "string" THEN v.str # << >>
  ELSE v.t = "object"

\* a || b
OrValue(a, b) == IF Truthy(a) THEN a ELSE b

(***************************************************************************)
(* The raw snapshot: rawData.charge_state, .vehicle_state, .vehicle_config *)
(* are members that may be objects (t = "object", their properties in f)   *)
(* or anything else; rawData.vin is a value.                               *)
(***************************************************************************)
NoChargeProps ==
  [battery_level |-> JsUndefined, usable_battery_level |-> JsUndefined,
   est_battery_range |-> JsUndefined, battery_range |-> JsUndefined,
   ideal_battery_range |-> JsUndefined, charging_state |-> JsUndefined,
   charge_rate |-> JsUndefined, charge_energy_added |-> JsUndefined,
   charge_miles_added_ideal |-> JsUndefined, charge_miles_added_rated |-> JsUndefined]

NoVehicleProps == [odometer |-> JsUndefined]

NoConfigProps == [car_type |-> JsUndefined]

\* a member of rawData that is not an object: undefined, or a primitive
NonObject(t, props) == [t |-> t, f |-> props]

ObjectOf(props) == [t |-> "object", f |-> props]

\* `rawData.member || {}` followed by property reads: a primitive or a missing
\* member has none of the properties
PropsOf(member, none) == IF member.t = "object" THEN member.f ELSE none

\* obj[key] of an object given as a record: undefined when it has no such key
Member(obj, key, undef) == IF key \in DOMAIN obj THEN obj[key] ELSE undef

(***************************************************************************)
(* validateNumber (the same code in both services)                         *)
(***************************************************************************)
validateNumber(value) ==
  IF IsNaN(ToNumber(value)) THEN Zero ELSE ToNumber(value)

NotAFunctionMessage == <<"vin.includes", "is", "not", "a", "function">>

\* FixedBatteryHealthService.detectVehicleModel: vin.includes(...) exists only
\* on a string (arrays are not among the values of the model)
detectVehicleModelFixed(rawData) ==
  LET vin == OrValue(rawData.vin, JsString(<< >>))
  IN IF vin.t # "string" THEN [threw |-> NotAFunctionMessage, value |-> ""]
     ELSE IF Includes(vin.str, <<"3">>) THEN [threw |-> NoError, value |-> "Model 3"]
     ELSE IF Includes(vin.str, <<"S">>) THEN [threw |-> NoError, value |-> "Model S"]
     ELSE IF Includes(vin.str, <<"X">>) THEN [threw |-> NoError, value |-> "Model X"]
     ELSE IF Includes(vin.str, <<"Y">>) THEN [threw |-> NoError, value |-> "Model Y"]
     ELSE [threw |-> NoError, value |-> "Model 3"]

\* EnhancedBatteryHealthService.detectVehicleModel
detectVehicleModelEnhanced(rawData) ==
  LET carType == PropsOf(rawData.vehicle_config, NoConfigProps).car_type
      is(name) == carType.t = "string" /\ carType.str = name
  IN IF is(<<"m", "o", "d", "e", "l", "3">>) THEN [threw |-> NoError, value |-> "Model 3"]
     ELSE IF is(<<"m", "o", "d", "e", "l", "s">>) THEN [threw |-> NoError, value |-> "Model S"]
     ELSE IF is(<<"m", "o", "d", "e", "l", "x">>) THEN [threw |-> NoError, value |-> "Model X"]
     ELSE IF is(<<"m", "o", "d", "e", "l", "y">>) THEN [threw |-> NoError, value |-> "Model Y"]
     ELSE [threw |-> NoError, value |-> "Model 3"]

Services == {"Fixed", "Enhanced"}

detectVehicleModel(service, rawData) ==
  IF service = "Fixed" THEN detectVehicleModelFixed(rawData)
  ELSE detectVehicleModelEnhanced(rawData)

\* the object literal validateVehicleData builds (dataTimestamp, the time of the
\* call, is kept out of the record)
ValidatedOf(service, charge, vehicle, model) ==
  [batteryLevel |-> validateNumber(charge.battery_level),
   usableBatteryLevel |-> validateNumber(charge.usable_battery_level),
   currentRange |-> validateNumber(OrValue(charge.est_battery_range, charge.battery_range)),
   idealRange |-> validateNumber(charge.ideal_battery_range),
   ratedRange |-> validateNumber(charge.battery_range),
   odometer |-> validateNumber(vehicle.odometer),
   chargingState |-> OrValue(charge.charging_state,
                             JsString(<<"U", "n", "k", "n", "o", "w", "n">>)),
   chargeRate |-> validateNumber(charge.charge_rate),
   chargeEnergyAdded |-> validateNumber(charge.charge_energy_added),
   chargeMilesAddedIdeal |-> validateNumber(charge.charge_miles_added_ideal),
   chargeMilesAddedRated |-> validateNumber(charge.charge_miles_added_rated),
   vehicleModel |-> model,
   rawChargeState |-> charge,
   rawVehicleState |-> vehicle,
   dataSource |-> IF service = "Enhanced" THEN "Tesla Fleet API" ELSE ""]

NoValidated == ValidatedOf("Fixed", NoChargeProps, NoVehicleProps, "")

\* validateVehicleData of the service: the error it throws (NoError: none) and
\* the snapshot it returns
validateVehicleData(service, rawData) ==
  LET charge == PropsOf(rawData.charge_state, NoChargeProps)
      vehicle == PropsOf(rawData.vehicle_state, NoVehicleProps)
      model == detectVehicleModel(service, rawData)
  IN IF model.threw # NoError
       THEN [threw |-> model.threw, value |-> NoValidated]
       ELSE [threw |-> NoError,
             value |-> ValidatedOf(service, charge, vehicle, model.value)]

\* the numeric fields of a validated snapshot
NumericFields(v) ==
  { v.batteryLevel, v.usableBatteryLevel, v.currentRange, v.idealRange, v.ratedRange,
    v.odometer, v.chargeRate, v.chargeEnergyAdded, v.chargeMilesAddedIdeal,
    v.chargeMilesAddedRated }

\* a validated snapshot handed to validateVehicleData as its rawData: the
\* members the validator reads are looked up by name in the object
AsRawData(v) ==
  [charge_state |-> Member(v, "charge_state", NonObject("undefined", NoChargeProps)),
   vehicle_state |-> Member(v, "vehicle_state", NonObject("undefined", NoVehicleProps)),
   vehicle_config |-> Member(v, "vehicle_config", NonObject("undefined", NoConfigProps)),
   vin |-> Member(v, "vin", JsUndefined)]

(***************************************************************************)
(* FixedBatteryHealthService: the scoring of a validated snapshot          *)
(***************************************************************************)
\* getEPARange(model): ranges[model] || 358
getEPARange(model) ==
  IF model = "Model 3" THEN Num(358)
  ELSE IF model = "Model S" THEN Num(405)
  ELSE IF model = "Model X" THEN Num(351)
  ELSE IF model = "Model Y" THEN Num(326)
  ELSE Num(358)

\* Math.max(0, Math.min(hi, x))
Clamp(hi, x) == MathMax(Zero, MathMin(Num(hi), x))

\* Math.round(x * 10) / 10
RoundToTenth(x) == Div(MathRound(Mul(x, Num(10))), Num(10))

calculateRangeDegradationFixed(data, baselineRange) ==
  IF ~TruthyNumber(data.currentRange) \/ ~TruthyNumber(baselineRange)
    THEN Zero
    ELSE Clamp(30, Mul(Div(Sub(baselineRange, data.currentRange), baselineRange), Num(100)))

expectedUsableRatio == Fin(95, 100)

\* a plausible slip: the branch is taken only for a ratio above the expected 0.95
UsableRatioApplies_aboveExpected(data) ==
  /\ TruthyNumber(data.usableBatteryLevel)
  /\ TruthyNumber(data.batteryLevel)
  /\ Gt(Div(data.usableBatteryLevel, data.batteryLevel), expectedUsableRatio)
  /\ Le(Div(data.usableBatteryLevel, data.batteryLevel), Num(1))

\* the test that selects the usable-ratio branch of calculateCapacityDegradationFixed
UsableRatioApplies(data) ==
  /\ TruthyNumber(data.usableBatteryLevel)
  /\ TruthyNumber(data.batteryLevel)
  /\ Gt(Div(data.usableBatteryLevel, data.batteryLevel), Fin(85, 100))
  /\ Le(Div(data.usableBatteryLevel, data.batteryLevel), Num(1))

calculateCapacityDegradationFixed(data) ==
  IF UsableRatioApplies(data)
    THEN Clamp(25, Mul(Div(Sub(expectedUsableRatio,
                                Div(data.usableBatteryLevel, data.batteryLevel)),
                            expectedUsableRatio),
                        Num(100)))
    ELSE Clamp(20, Mul(calculateRangeDegradationFixed(
                          data, OrElse(data.idealRange, getEPARange(data.vehicleModel))),
                       Fin(8, 10)))

\* Math.round(mileage / 443)
estimateChargeCycles(mileage) == MathRound(Div(mileage, Num(443)))

\* calculateHealthScoreFixed: the mileage penalty
mileagePenalty(mileage) ==
  IF Gt(mileage, Num(200000)) THEN 15
  ELSE IF Gt(mileage, Num(150000)) THEN 10
  ELSE IF Gt(mileage, Num(100000)) THEN 5
  ELSE 0

calculateHealthScoreFixed(metrics) ==
  LET rangePenalty == MathMin(Num(25), Mul(metrics.rangeDegradation, Num(1)))
      capacityPenalty == MathMin(Num(20), Mul(metrics.capacityDegradation, Fin(15, 10)))
      cyclePenalty == IF Gt(metrics.cycles, Num(1500)) THEN 10
                      ELSE IF Gt(metrics.cycles, Num(1000)) THEN 5
                      ELSE 0
      bonus == IF /\ TruthyNumber(metrics.usableBatteryLevel)
                  /\ TruthyNumber(metrics.batteryLevel)
                  /\ Gt(Div(metrics.usableBatteryLevel, metrics.batteryLevel),
                        Fin(95, 100))
                 THEN 5 ELSE 0
      score == Add(Sub(Sub(Sub(Sub(Num(100), rangePenalty), capacityPenalty),
                           Num(mileagePenalty(metrics.mileage))),
                       Num(cyclePenalty)),
                   Num(bonus))
  IN MathMax(Zero, MathMin(Num(100), MathRound(score)))

\* generateAssessment(score, metrics).grade
healthGrade(score) ==
  IF Ge(score, Num(90)) THEN "Excellent"
  ELSE IF Ge(score, Num(75)) THEN "Good"
  ELSE IF Ge(score, Num(60)) THEN "Fair"
  ELSE "Poor"

\* the assessment record, the fields the two services have in common
Health(score, capacity, range, cycles, grade, path) ==
  [overallHealthScore |-> score, capacityDegradation |-> capacity,
   rangeDegradation |-> range, estimatedCycles |-> cycles, healthGrade |-> grade,
   capacityPath |-> path]

NoHealth == Health(Zero, Zero, Zero, Zero, "", "")

\* FixedBatteryHealthService.calculateBatteryHealthFixed
calculateBatteryHealthFixedOfFixed(data) ==
  LET originalRange == OrElse(data.idealRange, getEPARange(data.vehicleModel))
      rangeDegradation == calculateRangeDegradationFixed(data, originalRange)
      capacityDegradation == calculateCapacityDegradationFixed(data)
      estimatedCycles == estimateChargeCycles(data.odometer)
      healthScore ==
        calculateHealthScoreFixed(
          [rangeDegradation |-> rangeDegradation,
           capacityDegradation |-> capacityDegradation,
           mileage |-> data.odometer, cycles |-> estimatedCycles,
           batteryLevel |-> data.batteryLevel,
           usableBatteryLevel |-> data.usableBatteryLevel])
  IN Health(healthScore, RoundToTenth(capacityDegradation),
            RoundToTenth(rangeDegradation), estimatedCycles, healthGrade(healthScore),
            IF UsableRatioApplies(data) THEN "usableRatio" ELSE "rangeFallback")

(***************************************************************************)
(* EnhancedBatteryHealthService.calculateBatteryHealthFixed                *)
(***************************************************************************)
calculateBatteryHealthFixedOfEnhanced(validatedData) ==
  LET currentCapacity == Mul(Num(75), Div(validatedData.usableBatteryLevel, Num(100)))
      maxCapacity == Num(75)
      capacityDegradation ==
        MathMax(Zero, Mul(Div(Sub(maxCapacity, currentCapacity), maxCapacity), Num(100)))
      rangeDegradation ==
        IF Gt(validatedData.idealRange, Zero)
          THEN MathMax(Zero, Mul(Div(Sub(Num(358), validatedData.currentRange), Num(358)),
                                 Num(100)))
          ELSE Zero
      healthScore ==
        MathMax(Zero, Sub(Sub(Num(100), capacityDegradation),
                          Mul(rangeDegradation, Fin(5, 10))))
  IN Health(MathRound(healthScore), RoundToTenth(capacityDegradation),
            RoundToTenth(rangeDegradation),
            MathRound(Div(validatedData.odometer, Num(443))), "", "usableLevel")

calculateBatteryHealthFixed(service, data) ==
  IF service = "Fixed" THEN calculateBatteryHealthFixedOfFixed(data)
  ELSE calculateBatteryHealthFixedOfEnhanced(data)

(***************************************************************************)
(* Raw snapshots the services are given: one well-formed snapshot, every   *)
(* snapshot that differs from it in one member, and a few that differ in   *)
(* two.                                                                    *)
(***************************************************************************)
Chars3 == <<"m", "o", "d", "e", "l", "3">>

BaseChargeProps ==
  [battery_level |-> JsNumber(Num(78)),
   usable_battery_level |-> JsNumber(Num(74)),
   est_battery_range |-> JsNumber(Num(402)),
   battery_range |-> JsNumber(Num(410)),
   ideal_battery_range |-> JsNumber(Num(460)),
   charging_state |-> JsString(<<"S", "t", "o", "p", "p", "e", "d">>),
   charge_rate |-> JsNumber(Zero),
   charge_energy_added |-> JsNumber(Fin(125, 10)),
   charge_miles_added_ideal |-> JsNumber(Num(50)),
   charge_miles_added_rated |-> JsNumber(Num(48))]

BaseRawData ==
  [charge_state |-> ObjectOf(BaseChargeProps),
   vehicle_state |-> ObjectOf([odometer |-> JsNumber(Num(32750))]),
   vehicle_config |-> ObjectOf([car_type |-> JsString(Chars3)]),
   vin |-> JsString(<<"5", "Y", "J", "3", "E", "1">>)]

\* {}
EmptyRawData ==
  [charge_state |-> NonObject("undefined", NoChargeProps),
   vehicle_state |-> NonObject("undefined", NoVehicleProps),
   vehicle_config |-> NonObject("undefined", NoConfigProps),
   vin |-> JsUndefined]

RawValues ==
  { JsUndefined, JsNull, JsObject,
    JsNumber(Zero), JsNumber(Num(0 - 5)), JsNumber(Num(50)), JsNumber(Num(76)),
    JsNumber(Num(1000)), JsNumber(Fin(7785, 100)),
    JsNumber(PosInfinity), JsNumber(NegInfinity),
    JsString(<<"7", "8">>), JsString(<<"a", "b", "c">>), JsString(<< >>),
    JsString(InfinityChars), JsString(<<"-", "1", "2", ".", "5">>) }

OdometerValues ==
  RawValues \cup { JsNumber(Num(120000)), JsNumber(Num(180000)), JsNumber(Num(250000)),
                   JsNumber(Num(500000)), JsNumber(Num(700000)),
                   JsNumber(Num(99999)), JsNumber(Num(100000)), JsNumber(Num(150000)),
                   JsNumber(Num(200000)), JsNumber(Num(200001)) }

VinValues ==
  { JsUndefined, JsNull, JsNumber(Num(12345)), JsObject, JsString(<< >>),
    JsString(<<"5", "Y", "J", "S", "A">>), JsString(<<"7", "S", "A", "X", "C">>),
    JsString(<<"7", "S", "A", "Y", "G">>), JsString(<<"L", "R", "W">>) }

NumericChargeProps ==
  {"battery_level", "usable_battery_level", "est_battery_range", "battery_range",
   "ideal_battery_range", "charge_rate", "charge_energy_added",
   "charge_miles_added_ideal", "charge_miles_added_rated"}

WithCharge(rawData, prop, value) ==
  [rawData EXCEPT !.charge_state.f[prop] = value]

RawSnapshots ==
  {BaseRawData, EmptyRawData}
  \cup { WithCharge(BaseRawData, p, v) : p \in NumericChargeProps, v \in RawValues }
  \cup { [BaseRawData EXCEPT !.vehicle_state.f.odometer = v] : v \in OdometerValues }
  \cup { [BaseRawData EXCEPT !.vin = v] : v \in VinValues }
  \cup { [BaseRawData EXCEPT !.charge_state = NonObject(t, NoChargeProps)] :
            t \in {"undefined", "null", "number", "string"} }
  \cup { [BaseRawData EXCEPT !.vehicle_state = NonObject(t, NoVehicleProps)] :
            t \in {"undefined", "null", "number", "string"} }
  \cup { [BaseRawData EXCEPT !.vehicle_config = m] :
            m \in { NonObject("undefined", NoConfigProps),
                    ObjectOf([car_type |-> JsString(<<"m", "o", "d", "e", "l", "s">>)]),
                    ObjectOf([car_type |-> JsNumber(Num(3))]) } }
  \cup { WithCharge(WithCharge(BaseRawData, "usable_battery_level", u), "battery_level", b) :
            u \in {JsNumber(Num(77)), JsNumber(Num(60)), JsNumber(Num(90))},
            b \in {JsNumber(Num(78)), JsNumber(Num(100)), JsNumber(Num(80))} }
  \cup { WithCharge(WithCharge(BaseRawData, "est_battery_range", c),
                    "ideal_battery_range", i) :
            c \in {JsNumber(Num(100)), JsNumber(Num(500)), JsNumber(PosInfinity)},
            i \in {JsNumber(Zero), JsNumber(Num(0 - 460)), JsNumber(PosInfinity)} }

(***************************************************************************)
(* TeslaMateAlgorithmService: the history built from one raw snapshot and  *)
(* the figures computed from it.  Lists are sequences.  Math.random() is   *)
(* the k-th draw of a pattern of draws.  The members of charge_state are   *)
(* numbers, null or absent, as the vehicle_data endpoint delivers them.    *)
(***************************************************************************)
RandomPatterns == {"low", "mid", "high", "mixed"}

\* Math.random(), the k-th call: a number in [0, 1)
RandomDraw(pattern, k) ==
  CASE pattern = "low" -> Zero
    [] pattern = "mid" -> Fin(1, 2)
    [] pattern = "high" -> Fin(999, 1000)
    [] OTHER -> IF k % 2 = 0 THEN Zero ELSE Fin(1, 2)

\* Math.floor(a)
MathFloor(a) == IF IsFinite(a) THEN Num(FloorDiv(a.n, a.d)) ELSE a

\* const charge = rawData.charge_state || {}; charge[key]
ChargeProp(rawData, key) ==
  Member(PropsOf(rawData.charge_state, NoChargeProps), key, JsUndefined)

\* value || 0, read as a number
OrZero(value) == ToNumber(OrValue(value, JsNumber(Zero)))

\* a plausible slip: a year of weekly charges
weeksBack_year == 365 \div 7

\* generateMockHistoricalData: const weeksBack = 12
weeksBack == 12

\* generateMockProcesses: const sessionsBack = 15
sessionsBack == 15

\* generateMockRangeData: const daysBack = 30
daysBack == 30

\* generateMockHistoricalData(current)
generateMockHistoricalData(current, pattern) ==
  [i \in 1..weeksBack |->
     LET degradationFactor == Sub(Num(1), Mul(Num(i), Fin(2, 1000)))
     IN [ratedBatteryRangeKm |-> Mul(current.ratedBatteryRangeKm, degradationFactor),
         usableBatteryLevel |->
           MathRound(Mul(current.usableBatteryLevel, degradationFactor)),
         chargeEnergyAdded |-> Add(Num(20), Mul(RandomDraw(pattern, i), Num(40))),
         batteryLevel |-> MathRound(Mul(current.batteryLevel, degradationFactor))]]

\* generateMockProcesses(current)
generateMockProcesses(current, pattern) ==
  [i \in 1..sessionsBack |->
     LET degradationFactor == Sub(Num(1), Mul(Num(i), Fin(1, 1000)))
     IN [chargeEnergyAdded |->
           Add(Num(15), Mul(RandomDraw(pattern, weeksBack + 2 * i - 1), Num(30))),
         startRatedRangeKm |-> Mul(current.startRatedRangeKm, degradationFactor),
         endRatedRangeKm |-> Mul(current.endRatedRangeKm, degradationFactor),
         durationMin |->
           Add(Num(30), Mul(RandomDraw(pattern, weeksBack + 2 * i), Num(120))),
         endBatteryLevel |-> MathRound(Mul(current.endBatteryLevel, degradationFactor)),
         startBatteryLevel |->
           MathRound(Mul(current.startBatteryLevel, degradationFactor))]]

\* generateMockRangeData(current)
generateMockRangeData(current, pattern) ==
  [i \in 1..daysBack |->
     LET degradationFactor == Sub(Num(1), Mul(Num(i), Fin(5, 10000)))
         draw == RandomDraw(pattern, weeksBack + 2 * sessionsBack + i)
     IN [batteryLevel |->
           MathRound(Mul(current.batteryLevel,
                         Add(Fin(8, 10), Mul(draw, Fin(4, 10))))),
         usableBatteryLevel |->
           JsNumber(MathRound(Mul(ToNumber(OrValue(current.usableBatteryLevel,
                                                   JsNumber(current.batteryLevel))),
                                  degradationFactor))),
         ratedBatteryRangeKm |-> Mul(current.ratedBatteryRangeKm, degradationFactor),
         idealBatteryRangeKm |-> Mul(current.idealBatteryRangeKm, degradationFactor)]]

NoHistory ==
  [charges |-> << >>, processes |-> << >>, rangeData |-> << >>,
   customKwhNew |-> JsUndefined]

\* processDataForTeslaMate(rawData)
processDataForTeslaMate(rawData, pattern) ==
  LET battery_range == ChargeProp(rawData, "battery_range")
      battery_level == ChargeProp(rawData, "battery_level")
      currentChargeData ==
        [ratedBatteryRangeKm |->
           OrZero(OrValue(battery_range, ChargeProp(rawData, "rated_battery_range"))),
         usableBatteryLevel |->
           OrZero(OrValue(ChargeProp(rawData, "usable_battery_level"), battery_level)),
         chargeEnergyAdded |-> OrZero(ChargeProp(rawData, "charge_energy_added")),
         batteryLevel |-> OrZero(battery_level)]
      currentProcess ==
        [chargeEnergyAdded |-> OrZero(ChargeProp(rawData, "charge_energy_added")),
         startRatedRangeKm |->
           Sub(OrZero(battery_range),
               OrZero(ChargeProp(rawData, "charge_miles_added_rated"))),
         endRatedRangeKm |-> OrZero(battery_range),
         durationMin |-> Num(60),
         endBatteryLevel |-> OrZero(battery_level),
         startBatteryLevel |-> MathMax(Zero, Sub(OrZero(battery_level), Num(10)))]
      currentRangeData ==
        [batteryLevel |-> OrZero(battery_level),
         usableBatteryLevel |-> ChargeProp(rawData, "usable_battery_level"),
         ratedBatteryRangeKm |-> OrZero(battery_range),
         idealBatteryRangeKm |->
           OrZero(OrValue(ChargeProp(rawData, "ideal_battery_range"), battery_range))]
  IN [charges |->
        <<currentChargeData>> \o generateMockHistoricalData(currentChargeData, pattern),
      processes |-> <<currentProcess>> \o generateMockProcesses(currentProcess, pattern),
      rangeData |->
        <<currentRangeData>> \o generateMockRangeData(currentRangeData, pattern),
      customKwhNew |-> JsUndefined]

\* Object.keys(groups): the keys that are array indices first, ascending,
\* then the other keys in the order they were inserted.  A number and the
\* key made from it name each other exactly.
IsIndexKey(a) == IsInteger(a) /\ a.n >= 0

FirstIndex(s, x) == CHOOSE i \in 1..Len(s) : s[i] = x /\ \A j \in 1..(i - 1) : s[j] # x

\* a comes before b in Object.keys of the groups built from effs
KeyBefore(effs, a, b) ==
  IF IsIndexKey(a) /\ IsIndexKey(b) THEN a.n < b.n
  ELSE IF IsIndexKey(a) # IsIndexKey(b) THEN IsIndexKey(a)
  ELSE FirstIndex(effs, a) < FirstIndex(effs, b)

defaultEfficiency == Fin(2, 10)

\* calculateDerivedEfficiency(processes)
calculateDerivedEfficiency(processes) ==
  LET IsValid(p) == /\ Gt(p.durationMin, Num(10))
                    /\ Le(p.endBatteryLevel, Num(95))
                    /\ TruthyNumber(p.startRatedRangeKm)
                    /\ TruthyNumber(p.endRatedRangeKm)
                    /\ Gt(p.chargeEnergyAdded, Zero)
      validProcesses == SelectSeq(processes, IsValid)
      Efficiency(p) ==
        LET rangeAdded == Sub(p.endRatedRangeKm, p.startRatedRangeKm)
        IN IF Gt(rangeAdded, Zero)
             THEN Mul(Div(p.chargeEnergyAdded, rangeAdded), Num(100))
             ELSE Zero
      Rounded(eff) == Div(MathRound(Mul(eff, Num(1000))), Num(1000))
      IsPositive(eff) == Gt(eff, Zero)
      positive == SelectSeq([i \in 1..Len(validProcesses) |->
                               Efficiency(validProcesses[i])], IsPositive)
      keys == [i \in 1..Len(positive) |-> Rounded(positive[i])]
      Count(key) == Cardinality({i \in 1..Len(keys) : keys[i] = key})
      keySet == {keys[i] : i \in 1..Len(keys)}
  IN IF Len(positive) = 0
       THEN defaultEfficiency
       ELSE CHOOSE key \in keySet :
              \A other \in keySet \ {key} :
                 \/ Count(key) > Count(other)
                 \/ (Count(key) = Count(other) /\ KeyBefore(keys, key, other))

defaultCapacity == Num(75)

\* the filter shared by calculateCurrentCapacity and calculateMaxCapacity
AcceptedForCapacity(charge, efficiency) ==
  Gt(charge.usableBatteryLevel, Zero) /\ Ge(charge.chargeEnergyAdded, efficiency)

RECURSIVE MaxOf(_, _, _)
\* Math.max(values[from], ..., values[to]), by halves; -Infinity of no value
MaxOf(values, from, to) ==
  IF from > to THEN NegInfinity
  ELSE IF from = to THEN values[from]
  ELSE MathMax(MaxOf(values, from, (from + to) \div 2),
               MaxOf(values, (from + to) \div 2 + 1, to))

\* calculateMaxCapacity(charges, efficiency)
calculateMaxCapacity(charges, efficiency) ==
  LET Accepted(charge) == AcceptedForCapacity(charge, efficiency)
      validCharges == SelectSeq(charges, Accepted)
      capacities ==
        [i \in 1..Len(validCharges) |->
           Div(Mul(validCharges[i].ratedBatteryRangeKm, efficiency),
               validCharges[i].usableBatteryLevel)]
  IN IF Len(validCharges) = 0
       THEN defaultCapacity
       ELSE MaxOf(capacities, 1, Len(capacities))

\* calculateBatteryDegradation(data): the capacity it divides by
baselineCapacity(customKwhNew, maxCapacity) ==
  IF Truthy(customKwhNew) /\ Gt(ToNumber(customKwhNew), Zero)
    THEN ToNumber(customKwhNew)
    ELSE maxCapacity

RECURSIVE SumEnergy(_, _, _)
\* charges.reduce((sum, charge) => sum + charge.chargeEnergyAdded, 0) over
\* charges[from..to], by halves (the sum of exact numbers is the same)
SumEnergy(charges, from, to) ==
  IF from > to THEN Zero
  ELSE IF from = to THEN charges[from].chargeEnergyAdded
  ELSE Add(SumEnergy(charges, from, (from + to) \div 2),
           SumEnergy(charges, (from + to) \div 2 + 1, to))

\* calculateChargeCycles(charges, batteryCapacity)
calculateChargeCycles(charges, batteryCapacity) ==
  LET Counted(charge) == Gt(charge.chargeEnergyAdded, Fin(1, 100))
      counted == SelectSeq(charges, Counted)
  IN MathFloor(Div(SumEnergy(counted, 1, Len(counted)), batteryCapacity))

\* calculateTeslaMateHealthScore: const confidenceLevel
confidenceLevel(validCharges) ==
  IF validCharges > 50 THEN "High" ELSE IF validCharges > 20 THEN "Medium" ELSE "Low"

NoTeslaMateResults ==
  [efficiency |-> Zero, maxCapacity |-> Zero, baselineCapacity |-> Zero,
   chargeCycles |-> Zero, validCharges |-> 0,
   validProcesses |-> 0, confidenceLevel |-> "", totalDataPoints |-> 0]

\* calculateTeslaMateHealthScore(data): the efficiency, the capacity that is
\* divided by and what is computed from them, and the data quality
calculateTeslaMateHealthScore(data) ==
  LET efficiency == calculateDerivedEfficiency(data.processes)
      maxCapacity ==
        IF Truthy(data.customKwhNew)
          THEN ToNumber(data.customKwhNew)
          ELSE calculateMaxCapacity(data.charges, efficiency)
      HasUsable(c) == Gt(c.usableBatteryLevel, Zero)
      LongEnough(p) == Gt(p.durationMin, Num(10))
      validCharges == Len(SelectSeq(data.charges, HasUsable))
  IN [efficiency |-> efficiency,
      maxCapacity |-> maxCapacity,
      baselineCapacity |-> baselineCapacity(data.customKwhNew, maxCapacity),
      chargeCycles |-> calculateChargeCycles(data.charges, maxCapacity),
      validCharges |-> validCharges,
      validProcesses |-> Len(SelectSeq(data.processes, LongEnough)),
      confidenceLevel |-> confidenceLevel(validCharges),
      totalDataPoints |->
        Len(data.charges) + Len(data.processes) + Len(data.rangeData)]

VARIABLES
  pc,              \* the await the orchestration run is suspended at
  phase,           \* "direct" | "initwake" | "poll": which part of the run
  now,             \* Date.now()
  runStart,        \* Date.now() when getVehicleDataWithWakeUp was entered
  startTime,       \* wakeUpAndGetData: const startTime
  attempts,        \* wakeUpAndGetData: let attempts
  fetches,         \* calls of teslaAuth.getVehicleData made by the run
  wakeCmds,        \* calls of sendWakeUpCommand made by the run
  fetchWakePosts,  \* POST .../wake_up requests issued inside getVehicleData for the run
  result,          \* the WakeUpResult the run resolved to
  threw,           \* the run's promise rejected
  allNeedWake,     \* every fetch so far failed with an asleep/offline error
  fatalCause,      \* message of a fetch failure that names no wake needle
  lastWake,        \* outcome of the sendWakeUpCommand that completed last
  cancelRequested, \* the caller raised its cancellation signal
  hung,            \* the network call awaited will never respond
  settled,         \* calls of getVehicleData / sendWakeUpCommand that have settled
  lastWakeAt,      \* Date.now() when sendWakeUpCommand was last called (history,
                   \* kept in the behaviours whose net asks for it)
  device,          \* the snapshot the device reports when it answers
  net,             \* the network of this behaviour: the latencies it shows, the
                   \* outcomes the wake_up request inside getVehicleData can have,
                   \* and whether the times of the wake commands are recorded
  epc,             \* EnhancedBatteryHealthService.getBatteryHealthAssessment: its await
  attemptWakeUp,   \* options.attemptWakeUp
  vehicleState,    \* const vehicleState = await getVehicleState(vehicleId)
  deviceList,      \* what teslaAuth.getVehicles() did inside getVehicleState
  probeError,      \* message of the error getVehicleState rejected with
  assessment,      \* the value getBatteryHealthAssessment resolved to
  assessThrew,     \* message of the error getBatteryHealthAssessment rejected with
  tpc,             \* TeslaMateAlgorithmService.getBatteryHealthComparison: its await
  comparison,      \* the value getBatteryHealthComparison resolved to
  compareThrew,    \* message of the error getBatteryHealthComparison rejected with
  ppc,             \* FixedBatteryHealthService.getBatteryHealthAssessment: its await
  primaryData,     \* the snapshot the primary assessment was computed from
  spc,             \* AlgorithmComparisonScreen.runComparison: its await
  loading,         \* useState loading
  screenError,     \* useState error
  isOfflineComparison, \* useState isOfflineComparison
  comparisonData,  \* useState comparisonData
  vehicleId,       \* the vehicleId the screen is rendered with
  invocations,     \* the calls of runComparison the screen has made, in order
  service,         \* the assessment service that scores: "Fixed" | "Enhanced"
  rawData,         \* the raw snapshot handed to validateVehicleData
  hpc,             \* where the scoring of rawData stands
  validated,       \* const validatedData = this.validateVehicleData(rawData)
  health,          \* const healthData = this.calculateBatteryHealthFixed(validatedData)
  healthThrew,     \* message of the error the scoring threw
  clock,           \* Date.now() while two runs are in progress
  plans,           \* per vehicle id: what its getVehicleData calls will do
  runs,            \* per vehicle id: the invocation of getVehicleDataWithWakeUp
  frames,          \* the locals of wakeUpAndGetData, one slot per invocation
  alone,           \* per vehicle id: the same invocation run with no other
  tmStage,         \* where the secondary algorithm stands with its input
  tmRawData,       \* const rawData = wakeResult.vehicleData
  draws,           \* the pattern of the values Math.random() returns
  processedData,   \* const processedData = this.processDataForTeslaMate(rawData)
  teslaMateResults \* this.calculateTeslaMateHealthScore(processedData)

vars ==
  <<pc, phase, now, runStart, startTime, attempts, fetches, wakeCmds, fetchWakePosts,
    result, threw, allNeedWake, fatalCause, lastWake, cancelRequested, hung,
    settled, lastWakeAt, device,
    net, epc, attemptWakeUp, vehicleState, deviceList, probeError, assessment, assessThrew,
    tpc, comparison, compareThrew, ppc, primaryData,
    spc, loading, screenError, isOfflineComparison, comparisonData,
    vehicleId, invocations,
    service, rawData, hpc, validated, health, healthThrew,
    clock, plans, runs, frames, alone,
    tmStage, tmRawData, draws, processedData, teslaMateResults>>

\* the state of the callers of the orchestration
assessVars ==
  <<epc, attemptWakeUp, vehicleState, deviceList, probeError, assessment, assessThrew>>

teslaMateVars == <<tpc, comparison, compareThrew>>

primaryVars == <<ppc, primaryData>>

screenVars ==
  <<spc, loading, screenError, isOfflineComparison, comparisonData,
    vehicleId, invocations>>

\* the synchronous scoring of a snapshot inside an assessment
scoreVars == <<service, rawData, hpc, validated, health, healthThrew>>

\* two invocations of getVehicleDataWithWakeUp for two vehicle ids
pairVars == <<clock, plans, runs, frames, alone>>

\* the secondary algorithm at work on a snapshot or on a history
historyVars == <<tmStage, tmRawData, draws, processedData, teslaMateResults>>

callerVars ==
  <<net, assessVars, teslaMateVars, primaryVars, screenVars, scoreVars, pairVars,
    historyVars>>

runVars ==
  <<pc, phase, now, runStart, startTime, attempts, fetches, wakeCmds, fetchWakePosts,
    result, threw, allNeedWake, fatalCause, lastWake, cancelRequested, hung,
    settled, lastWakeAt>>

NetworkPcs == {"fetch_wake", "fetch_data", "send_wake"}

SuspendedPcs == NetworkPcs \cup {"sleep"}

InitRun ==
  /\ pc = "idle"
  /\ phase = "direct"
  /\ now = 0
  /\ runStart = 0
  /\ startTime = 0
  /\ attempts = 0
  /\ fetches = 0
  /\ wakeCmds = 0
  /\ fetchWakePosts = 0
  /\ result = NoResult
  /\ threw = FALSE
  /\ allNeedWake = TRUE
  /\ fatalCause = NoError
  /\ lastWake = "none"
  /\ cancelRequested = FALSE
  /\ hung = FALSE
  /\ settled = 0
  /\ lastWakeAt = 0

(***************************************************************************)
(* VehicleState (VehicleWakeService.ts:13-17); lastSeen is kept as the     *)
(* milliseconds elapsed since it, NoLastSeen when the field is absent.     *)
(***************************************************************************)
NoLastSeen == 0 - 1

HourMs == 1000 * 60 * 60

UnknownState == [state |-> "unknown", lastSeen |-> NoLastSeen]

\* getVehicleState: what the device list can make it return
ProbeResults ==
  { UnknownState,
    [state |-> "online",  lastSeen |-> 0],
    [state |-> "asleep",  lastSeen |-> 12 * HourMs],
    [state |-> "asleep",  lastSeen |-> 30 * HourMs],
    [state |-> "offline", lastSeen |-> 30 * HourMs],
    [state |-> "offline", lastSeen |-> NoLastSeen] }

\* teslaAuth.getVehicles() as getVehicleState meets it: it throws (transport),
\* or resolves to a list without the id (absent), or to a list with the vehicle
NoDeviceList == [kind |-> "none", vehicle |-> UnknownState]

DeviceLists ==
  { [kind |-> "transport", vehicle |-> UnknownState],
    [kind |-> "absent", vehicle |-> UnknownState] }
  \cup { [kind |-> "found", vehicle |-> vs] : vs \in ProbeResults }

\* VehicleWakeService.getVehicleState: the error it rejects with (none) and
\* the VehicleState it resolves to
getVehicleState(list) ==
  IF list.kind = "found"
    THEN [threw |-> NoError, value |-> list.vehicle]
    ELSE [threw |-> NoError, value |-> UnknownState]

\* VehicleWakeService.shouldAttemptWakeUp
shouldAttemptWakeUp(vs) ==
  IF vs.state = "online" THEN FALSE
  ELSE IF vs.state = "unknown" THEN TRUE
  ELSE IF vs.lastSeen # NoLastSeen /\ vs.lastSeen > 24 * HourMs THEN FALSE
  ELSE TRUE

\* VehicleWakeService.getWakeUpLikelihood
getWakeUpLikelihood(vs) ==
  IF vs.state = "online" THEN "none"
  ELSE IF vs.state = "asleep" THEN "high"
  ELSE IF vs.lastSeen # NoLastSeen /\ vs.lastSeen < 1 * HourMs THEN "high"
  ELSE IF vs.lastSeen # NoLastSeen /\ vs.lastSeen < 6 * HourMs THEN "medium"
  ELSE "low"

(***************************************************************************)
(* Values of EnhancedBatteryHealthService.getBatteryHealthAssessment       *)
(***************************************************************************)
NoAssessment ==
  [kind |-> "none", isOfflineAssessment |-> FALSE, error |-> NoError,
   data |-> NoData, wakeUpLikelihood |-> "none"]

\* createOfflineAssessment(vehicleState, reason)
OfflineAssessment(vs, reason) ==
  [kind |-> "offline", isOfflineAssessment |-> TRUE, error |-> reason,
   data |-> NoData, wakeUpLikelihood |-> getWakeUpLikelihood(vs)]

\* calculateBatteryHealthFixed(validateVehicleData(vehicleData)) plus vehicleState
LiveAssessment(data) ==
  [kind |-> "live", isOfflineAssessment |-> FALSE, error |-> NoError,
   data |-> data, wakeUpLikelihood |-> "none"]

NotAttemptedMessage ==
  <<"Vehicle", "is", "offline", "and", "wake-up", "not", "attempted">>

FailedToGetDataMessage == <<"Failed", "to", "get", "vehicle", "data">>

\* rawData.charge_state with rawData undefined: a TypeError
UndefinedReadMessage ==
  <<"Cannot", "read", "properties", "of", "undefined">>

(***************************************************************************)
(* Values of TeslaMateAlgorithmService.getBatteryHealthComparison.         *)
(* Decimal constants are kept in tenths (x10).                             *)
(***************************************************************************)
\* generateMockComparisonData(vehicleState).teslaMateResults
MockTeslaMateResults ==
  [batteryHealthPercent |-> 78, capacityDegradationX10 |-> 125,
   rangeDegradationX10 |-> 168, currentCapacityX10 |-> 656, maxCapacityX10 |-> 750,
   chargeCycles |-> 89, confidenceLevel |-> "Low (Demo Data)",
   validCharges |-> 0, validProcesses |-> 0]

NoMockResults ==
  [batteryHealthPercent |-> 0, capacityDegradationX10 |-> 0,
   rangeDegradationX10 |-> 0, currentCapacityX10 |-> 0, maxCapacityX10 |-> 0,
   chargeCycles |-> 0, confidenceLevel |-> "", validCharges |-> 0, validProcesses |-> 0]

NoComparison ==
  [success |-> FALSE, isOfflineComparison |-> FALSE, error |-> NoError,
   wakeUpLikelihood |-> "none", mockResults |-> NoMockResults, rawData |-> NoData]

\* createOfflineComparison(vehicleId, reason), vs the state it probed
OfflineComparison(vs, reason) ==
  [success |-> FALSE, isOfflineComparison |-> TRUE, error |-> reason,
   wakeUpLikelihood |-> getWakeUpLikelihood(vs), mockResults |-> MockTeslaMateResults,
   rawData |-> NoData]

\* {success: true, teslaMateResults, processedData, rawData}
LiveComparison(raw) ==
  [success |-> TRUE, isOfflineComparison |-> FALSE, error |-> NoError,
   wakeUpLikelihood |-> "none", mockResults |-> NoMockResults, rawData |-> raw]

(***************************************************************************)
(* AlgorithmComparisonScreen: comparisonData                               *)
(***************************************************************************)
NoComparisonData == [kind |-> "none", current |-> NoData, teslaMate |-> NoData]

\* runOfflineDemo: mockCurrentResults / mockTeslaMateResults, built from no snapshot
DemoComparisonData == [kind |-> "demo", current |-> NoData, teslaMate |-> NoData]

\* runComparison: the snapshots the two results were computed from
LiveComparisonData(cur, tm) == [kind |-> "live", current |-> cur, teslaMate |-> tm]

\* ExpoTeslaAuthService.wakeUpVehicle: getValidAccessToken throws, fetch throws,
\* or a response (ok or not) arrives
WakeUpVehicleOutcomes == {"tokenFail", "exception", "response"}

\* every latency and every outcome of the wake_up request
FullNetwork ==
  [latencies |-> Latencies, wakeUpOutcomes |-> WakeUpVehicleOutcomes,
   recordsWakeTimes |-> FALSE]

\* a network that answers every request at once
PromptNetwork ==
  [latencies |-> {0}, wakeUpOutcomes |-> {"tokenFail", "response"},
   recordsWakeTimes |-> TRUE]

InitCallers ==
  /\ epc = "idle"
  /\ attemptWakeUp = TRUE
  /\ vehicleState = UnknownState
  /\ deviceList = NoDeviceList
  /\ probeError = NoError
  /\ assessment = NoAssessment
  /\ assessThrew = NoError
  /\ tpc = "idle"
  /\ comparison = NoComparison
  /\ compareThrew = NoError
  /\ ppc = "idle"
  /\ primaryData = NoData
  /\ spc = "idle"
  /\ loading = FALSE
  /\ screenError = NoError
  /\ isOfflineComparison = FALSE
  /\ comparisonData = NoComparisonData
  /\ vehicleId = 1
  /\ invocations = << >>

\* no snapshot is being scored
InitScoreIdle ==
  /\ service = "Fixed"
  /\ rawData = EmptyRawData
  /\ hpc = "idle"
  /\ validated = NoValidated
  /\ health = NoHealth
  /\ healthThrew = NoError

(***************************************************************************)
(* Two invocations side by side.  An invocation is kept as a record: the   *)
(* await it is suspended at (pc), when that await settles (due), the calls *)
(* of getVehicleData it has made (fetches), its outbound calls in order    *)
(* (calls) and the WakeUpResult it resolved to.  Its locals startTime and  *)
(* attempts live in the frame of the invocation.                           *)
(***************************************************************************)
Devices == {1, 2}

NoFrame == [startTime |-> 0, attempts |-> 0]

NoPlan == [asleepFetches |-> 0, last |-> "data", latency |-> 0]

\* getVehicleDataWithWakeUp(vehicleId) is called at time t
RunAt(t) ==
  [pc |-> "idle", phase |-> "direct", due |-> t, fetches |-> 0, calls |-> << >>,
   result |-> NoResult]

\* no pair of invocations is under way
InitPairIdle ==
  /\ clock = 0
  /\ plans = [d \in Devices |-> NoPlan]
  /\ runs = [d \in Devices |-> RunAt(0)]
  /\ frames = [d \in Devices |-> NoFrame]
  /\ alone = [d \in Devices |-> RunAt(0)]

\* the secondary algorithm has no input
InitHistoryIdle ==
  /\ tmStage = "idle"
  /\ tmRawData = EmptyRawData
  /\ draws = "low"
  /\ processedData = NoHistory
  /\ teslaMateResults = NoTeslaMateResults

Init ==
  /\ InitRun
  /\ InitCallers
  /\ InitScoreIdle
  /\ InitPairIdle
  /\ InitHistoryIdle
  /\ device = LiveSnapshot
  /\ net = FullNetwork

InitAssess ==
  /\ InitRun
  /\ InitCallers
  /\ InitScoreIdle
  /\ InitPairIdle
  /\ InitHistoryIdle
  /\ device = LiveSnapshot
  /\ net = PromptNetwork

InitCompare ==
  /\ InitRun
  /\ InitCallers
  /\ InitScoreIdle
  /\ InitPairIdle
  /\ InitHistoryIdle
  /\ device \in DeviceSnapshots
  /\ net = PromptNetwork

(***************************************************************************)
(* VehicleWakeService: decisions of the poll loop                          *)
(***************************************************************************)
\* wakeUpAndGetData: while (Date.now() - startTime < this.wakeUpTimeout)
LoopContinues(elapsed) == elapsed < wakeUpTimeout

\* wakeUpAndGetData: if ((Date.now() - startTime) % 30000 < this.checkInterval)
ShouldRewake(elapsed) == (elapsed % rewakeModulo) < checkInterval

SendWakeOutcomes == {"tokenFail", "exception", "non2xx", "ok"}

\* a plausible slip: the try/catch around the wake request is missing
SendWakeRejects_uncaught(outcome) == outcome \in {"tokenFail", "exception"}

\* sendWakeUpCommand: every outcome is logged inside its try/catch, none rethrown
SendWakeRejects(outcome) == FALSE

\* wakeUpAndGetData, the catch around the wake and the poll loop
WakeUpFailedMessage(outcome) ==
  IF outcome = "tokenFail"
    THEN <<"teslaAuth.getAccessToken", "is", "not", "a", "function">>
    ELSE NetworkErrorMessage

\* a plausible slip: sendWakeUpCommand is called without await, so the run goes
\* on while the wake request is still in flight
AfterSettle_wakeNotAwaited(n, call) == IF call = "wake" THEN n ELSE n + 1

\* `await` of a call of getVehicleData or sendWakeUpCommand: the code after it
\* runs once that call has settled
AfterSettle(n, call) == n + 1

\* the head of the while loop, evaluated at time t
LoopHead(t, st) ==
  IF LoopContinues(t - st)
    THEN [pc |-> "sleep", attempts |-> attempts + 1, result |-> NoResult]
    ELSE [pc |-> "done", attempts |-> attempts, result |-> TimeoutResult]

(***************************************************************************)
(* getVehicleDataWithWakeUp is entered: tryGetVehicleData calls            *)
(* teslaAuth.getVehicleData, which first runs wakeUpVehicle.               *)
(***************************************************************************)
BeginRun ==
  /\ pc' = "fetch_wake"
  /\ phase' = "direct"
  /\ runStart' = now
  /\ fetches' = fetches + 1
  /\ UNCHANGED <<now, startTime, attempts, wakeCmds, fetchWakePosts, result, threw,
                 allNeedWake, fatalCause, lastWake, cancelRequested, hung, device,
                 settled, lastWakeAt>>

Start ==
  /\ pc = "idle"
  /\ BeginRun
  /\ UNCHANGED callerVars

(***************************************************************************)
(* A fetch (tryGetVehicleData) has failed with message msg at time t.      *)
(***************************************************************************)
FetchFailed(msg, t) ==
  /\ now' = t
  /\ settled' = AfterSettle(settled, "fetch")
  /\ lastWakeAt' = IF /\ net.recordsWakeTimes
                        /\ NeedsWake(msg)
                        /\ (phase = "direct" \/ ShouldRewake(t - startTime))
                     THEN t
                     ELSE lastWakeAt
  /\ allNeedWake' = (allNeedWake /\ \E n \in WakeNeedles : Includes(msg, n))
  /\ fatalCause' = IF \E n \in WakeNeedles : Includes(msg, n) THEN fatalCause ELSE msg
  /\ IF NeedsWake(msg)
       THEN IF phase = "direct"
              THEN \* wakeUpAndGetData: await this.sendWakeUpCommand(vehicleId)
                   /\ pc' = "send_wake"
                   /\ phase' = "initwake"
                   /\ wakeCmds' = wakeCmds + 1
                   /\ UNCHANGED <<attempts, result>>
              ELSE IF ShouldRewake(t - startTime)
                     THEN /\ pc' = "send_wake"
                          /\ wakeCmds' = wakeCmds + 1
                          /\ UNCHANGED <<phase, attempts, result>>
                     ELSE /\ pc' = LoopHead(t, startTime).pc
                          /\ attempts' = LoopHead(t, startTime).attempts
                          /\ result' = LoopHead(t, startTime).result
                          /\ UNCHANGED <<phase, wakeCmds>>
       ELSE \* throw error; caught by the caller's catch and returned as a value
            /\ pc' = "done"
            /\ result' = ErrorResult(msg)
            /\ UNCHANGED <<phase, attempts, wakeCmds>>
  /\ UNCHANGED <<runStart, startTime, fetches, threw, lastWake, cancelRequested, hung, device>>

(***************************************************************************)
(* teslaAuth.getVehicleData, first part: getValidAccessToken, then         *)
(* wakeUpVehicle (POST wake_up, then a 3000 ms wait unless fetch threw).   *)
(* The network latency of the whole getVehicleData call is accounted for   *)
(* when its GET resolves.                                                  *)
(***************************************************************************)
FetchWakeDone ==
  /\ UNCHANGED callerVars
  /\ pc = "fetch_wake"
  /\ ~hung
  /\ \E o \in net.wakeUpOutcomes :
       IF o = "tokenFail"
         THEN /\ FetchFailed(NoTokensMessage, now)
              /\ UNCHANGED fetchWakePosts
         ELSE /\ fetchWakePosts' = fetchWakePosts + 1
              /\ now' = now + (IF o = "exception" THEN 0 ELSE wakeSettleMs)
              /\ pc' = "fetch_data"
              /\ UNCHANGED <<phase, runStart, startTime, attempts, fetches, wakeCmds,
                             result, threw, allNeedWake, fatalCause, lastWake,
                             cancelRequested, hung, device, settled, lastWakeAt>>

(***************************************************************************)
(* teslaAuth.getVehicleData, second part: GET vehicle_data resolves.       *)
(***************************************************************************)
FetchDataOk ==
  /\ UNCHANGED callerVars
  /\ pc = "fetch_data"
  /\ ~hung
  /\ \E l \in net.latencies :
       /\ now' = now + l
       /\ pc' = "done"
       /\ result' = OnlineResult(device)
       /\ allNeedWake' = FALSE
  /\ settled' = AfterSettle(settled, "fetch")
  /\ UNCHANGED <<phase, runStart, startTime, attempts, fetches, wakeCmds, fetchWakePosts,
                 threw, fatalCause, lastWake, cancelRequested, hung, device, lastWakeAt>>

FetchDataError ==
  /\ UNCHANGED callerVars
  /\ pc = "fetch_data"
  /\ ~hung
  /\ \E l \in net.latencies, msg \in DataErrorMessages : FetchFailed(msg, now + l)
  /\ UNCHANGED fetchWakePosts

(***************************************************************************)
(* sendWakeUpCommand resolves (or, were it to reject, the catch of         *)
(* wakeUpAndGetData returns the error as a value).                         *)
(***************************************************************************)
SendWakeDone ==
  /\ UNCHANGED callerVars
  /\ pc = "send_wake"
  /\ ~hung
  /\ \E o \in SendWakeOutcomes, l \in net.latencies :
       LET t  == now + (IF o = "tokenFail" THEN 0 ELSE l)
           st == IF phase = "initwake" THEN t ELSE startTime
       IN /\ now' = t
          /\ lastWake' = o
          /\ IF SendWakeRejects(o)
               THEN /\ pc' = "done"
                    /\ result' = ErrorResult(WakeUpFailedMessage(o))
                    /\ UNCHANGED <<phase, startTime, attempts>>
               ELSE /\ startTime' = st
                    /\ phase' = "poll"
                    /\ pc' = LoopHead(t, st).pc
                    /\ attempts' = IF phase = "initwake"
                                     THEN 1
                                     ELSE LoopHead(t, st).attempts
                    /\ result' = LoopHead(t, st).result
  /\ settled' = AfterSettle(settled, "wake")
  /\ UNCHANGED <<runStart, fetches, wakeCmds, fetchWakePosts, threw, allNeedWake,
                 fatalCause, cancelRequested, hung, device, lastWakeAt>>

(***************************************************************************)
(* await this.sleep(this.checkInterval) resolves; the poll fetch begins.   *)
(***************************************************************************)
SleepDone ==
  /\ UNCHANGED callerVars
  /\ pc = "sleep"
  /\ now' = now + checkInterval
  /\ pc' = "fetch_wake"
  /\ fetches' = fetches + 1
  /\ lastWake' = "none"
  /\ UNCHANGED <<phase, runStart, startTime, attempts, wakeCmds, fetchWakePosts, result,
                 threw, allNeedWake, fatalCause, cancelRequested, hung, device,
                 settled, lastWakeAt>>

(***************************************************************************)
(* Environment: the caller raises its cancellation signal while the run is *)
(* suspended; a network call never responds.                               *)
(***************************************************************************)
Cancel ==
  /\ UNCHANGED callerVars
  /\ pc \in SuspendedPcs
  /\ ~cancelRequested
  /\ cancelRequested' = TRUE
  /\ UNCHANGED <<pc, phase, now, runStart, startTime, attempts, fetches, wakeCmds,
                 fetchWakePosts, result, threw, allNeedWake, fatalCause, lastWake, hung, device,
                 settled, lastWakeAt>>

NetworkHang ==
  /\ UNCHANGED callerVars
  /\ pc \in NetworkPcs
  /\ ~hung
  /\ hung' = TRUE
  /\ UNCHANGED <<pc, phase, now, runStart, startTime, attempts, fetches, wakeCmds,
                 fetchWakePosts, result, threw, allNeedWake, fatalCause, lastWake,
                 cancelRequested, device, settled, lastWakeAt>>

(***************************************************************************)
(* EnhancedBatteryHealthService.getBatteryHealthAssessment(vehicleId,      *)
(* {attemptWakeUp}): it is entered and awaits getVehicleState.             *)
(***************************************************************************)
AssessStart ==
  /\ UNCHANGED <<scoreVars, pairVars, historyVars>>
  /\ epc = "idle"
  /\ epc' = "probe"
  /\ attemptWakeUp' \in BOOLEAN
  /\ UNCHANGED <<vehicleState, deviceList, probeError, assessment, assessThrew, net>>
  /\ UNCHANGED <<teslaMateVars, primaryVars, screenVars>>
  /\ UNCHANGED <<pc, phase, now, runStart, startTime, attempts, fetches, wakeCmds,
                 fetchWakePosts, result, threw, allNeedWake, fatalCause, lastWake,
                 cancelRequested, hung, device, settled, lastWakeAt>>

\* a plausible slip: the attemptWakeUp option is not consulted
AttemptsWake_optionIgnored(option, vs) == shouldAttemptWakeUp(vs)

\* getBatteryHealthAssessment: else if (attemptWakeUp && shouldAttemptWakeUp(vehicleState))
AttemptsWake(option, vs) == option /\ shouldAttemptWakeUp(vs)

\* the catch of getBatteryHealthAssessment: these messages go to an offline assessment
AssessCatchIsOffline(msg) ==
  Includes(msg, <<"vehicle", "unavailable">>) \/ Includes(msg, <<"408">>)

(***************************************************************************)
(* getVehicleState resolves: the assessment picks its branch.              *)
(***************************************************************************)
AssessProbeDone ==
  /\ UNCHANGED <<scoreVars, pairVars, historyVars>>
  /\ epc = "probe"
  /\ \E dl \in DeviceLists :
     LET vs == getVehicleState(dl).value
     IN
       /\ deviceList' = dl
       /\ probeError' = getVehicleState(dl).threw
       /\ vehicleState' = vs
       /\ IF vs.state = "online"
            THEN /\ epc' = "run_online"
                 /\ BeginRun
                 /\ UNCHANGED <<assessment, assessThrew>>
            ELSE IF AttemptsWake(attemptWakeUp, vs)
                   THEN /\ epc' = "run_wake"
                        /\ BeginRun
                        /\ UNCHANGED <<assessment, assessThrew>>
                   ELSE /\ epc' = "done"
                        /\ assessment' = OfflineAssessment(vs, NotAttemptedMessage)
                        /\ UNCHANGED assessThrew
                        /\ UNCHANGED <<pc, phase, now, runStart, startTime, attempts,
                                       fetches, wakeCmds, fetchWakePosts, result, threw,
                                       allNeedWake, fatalCause, lastWake, cancelRequested,
                                       hung, device, settled, lastWakeAt>>
  /\ UNCHANGED <<attemptWakeUp, net, teslaMateVars, primaryVars, screenVars>>

\* what the try block throws once the run has resolved to r (NoError: nothing)
AssessThrown(branch, r) ==
  IF ~r.success
    THEN IF branch = "run_online"
           THEN (IF r.error = NoError THEN FailedToGetDataMessage ELSE r.error)
           ELSE NoError
    ELSE IF ~r.vehicleData.present THEN UndefinedReadMessage ELSE NoError

(***************************************************************************)
(* getVehicleDataWithWakeUp has resolved: the rest of the assessment.      *)
(* A thrown message that the catch takes for an offline device leads to a  *)
(* second getVehicleState (epc catch_probe); no message the try block can  *)
(* throw is one.                                                           *)
(***************************************************************************)
AssessRunDone ==
  /\ UNCHANGED <<scoreVars, pairVars, historyVars>>
  /\ epc \in {"run_online", "run_wake"}
  /\ pc = "done"
  /\ LET thrown == AssessThrown(epc, result)
     IN IF thrown # NoError
          THEN IF AssessCatchIsOffline(thrown)
                 THEN /\ epc' = "catch_probe"
                      /\ UNCHANGED <<assessment, assessThrew>>
                 ELSE /\ epc' = "done"
                      /\ assessThrew' = thrown
                      /\ UNCHANGED assessment
          ELSE /\ epc' = "done"
               /\ assessment' = IF result.success
                                  THEN LiveAssessment(result.vehicleData)
                                  ELSE OfflineAssessment(vehicleState, result.error)
               /\ UNCHANGED assessThrew
  /\ UNCHANGED <<attemptWakeUp, vehicleState, deviceList, probeError, net>>
  /\ UNCHANGED <<teslaMateVars, primaryVars, screenVars>>
  /\ UNCHANGED <<pc, phase, now, runStart, startTime, attempts, fetches, wakeCmds,
                 fetchWakePosts, result, threw, allNeedWake, fatalCause, lastWake,
                 cancelRequested, hung, device, settled, lastWakeAt>>

NextAssess ==
  \/ AssessStart
  \/ AssessProbeDone
  \/ AssessRunDone
  \/ FetchWakeDone
  \/ FetchDataOk
  \/ FetchDataError
  \/ SendWakeDone
  \/ SleepDone

SpecAssess == InitAssess /\ [][NextAssess]_vars

(***************************************************************************)
(* AlgorithmComparisonScreen.runComparison awaits Promise.all of the       *)
(* primary assessment and the TeslaMate comparison.  ScreenOnSettle is the *)
(* code that runs when one of the two settles: rej is the message of a     *)
(* rejection delivered now (NoError: none), pDone / tDone tell whether the *)
(* primary / the comparison is fulfilled after this step.                  *)
(***************************************************************************)
ScreenCatchIsOffline(msg) ==
  Includes(msg, <<"vehicle", "unavailable">>) \/ Includes(msg, <<"408">>)

ScreenOnSettle(rej, pDone, pData, tDone, cmp) ==
  IF spc # "await_all"
    THEN UNCHANGED screenVars
  ELSE IF rej # NoError
    THEN \* catch (err) ... finally setLoading(false)
         /\ spc' = "done"
         /\ UNCHANGED <<vehicleId, invocations>>
         /\ loading' = FALSE
         /\ IF ScreenCatchIsOffline(rej)
              THEN \* setIsOfflineComparison(true); await runOfflineDemo()
                   /\ isOfflineComparison' = TRUE
                   /\ comparisonData' = DemoComparisonData
                   /\ screenError' = NoError
              ELSE /\ screenError' = rej
                   /\ UNCHANGED <<isOfflineComparison, comparisonData>>
  ELSE IF pDone /\ tDone
    THEN /\ spc' = "done"
         /\ UNCHANGED <<vehicleId, invocations>>
         /\ loading' = FALSE
         /\ screenError' = NoError
         /\ IF cmp.isOfflineComparison
              THEN \* await runOfflineDemo(); return
                   /\ isOfflineComparison' = TRUE
                   /\ comparisonData' = DemoComparisonData
              ELSE /\ comparisonData' = LiveComparisonData(pData, cmp.rawData)
                   /\ UNCHANGED isOfflineComparison
  ELSE UNCHANGED screenVars

\* useEffect -> checkVehicleAndRun -> runComparison, up to await Promise.all
RunComparisonStart ==
  /\ UNCHANGED <<scoreVars, pairVars, historyVars>>
  /\ spc = "idle"
  /\ spc' = "await_all"
  /\ loading' = TRUE
  /\ screenError' = NoError
  /\ isOfflineComparison' = FALSE
  /\ ppc' = "fetch_wake"
  /\ tpc' = "run"
  /\ BeginRun
  /\ UNCHANGED <<comparisonData, primaryData, comparison, compareThrew,
                 net, assessVars, vehicleId, invocations>>

(***************************************************************************)
(* FixedBatteryHealthService.getBatteryHealthAssessment: its own           *)
(* teslaAuth.getVehicleData, then validateVehicleData and the scoring.     *)
(***************************************************************************)
PrimaryRejects(msg) ==
  /\ ppc' = "rejected"
  /\ UNCHANGED primaryData
  /\ ScreenOnSettle(msg, FALSE, NoData, tpc = "resolved", comparison)

PrimaryWakeDone ==
  /\ UNCHANGED <<scoreVars, pairVars, historyVars>>
  /\ ppc = "fetch_wake"
  /\ \E o \in net.wakeUpOutcomes :
       IF o = "tokenFail"
         THEN PrimaryRejects(NoTokensMessage)
         ELSE /\ ppc' = "fetch_data"
              /\ UNCHANGED <<primaryData, screenVars>>
  /\ UNCHANGED <<runVars, device, net, assessVars, teslaMateVars>>

PrimaryDataOk ==
  /\ UNCHANGED <<scoreVars, pairVars, historyVars>>
  /\ ppc = "fetch_data"
  /\ IF ~device.present
       THEN \* validateVehicleData: rawData.charge_state on undefined
            PrimaryRejects(UndefinedReadMessage)
       ELSE /\ ppc' = "resolved"
            /\ primaryData' = device
            /\ ScreenOnSettle(NoError, TRUE, device, tpc = "resolved", comparison)
  /\ UNCHANGED <<runVars, device, net, assessVars, teslaMateVars>>

PrimaryDataError ==
  /\ UNCHANGED <<scoreVars, pairVars, historyVars>>
  /\ ppc = "fetch_data"
  /\ \E msg \in DataErrorMessages : PrimaryRejects(msg)
  /\ UNCHANGED <<runVars, device, net, assessVars, teslaMateVars>>

(***************************************************************************)
(* TeslaMateAlgorithmService.getBatteryHealthComparison after its          *)
(* getVehicleDataWithWakeUp has resolved.                                  *)
(***************************************************************************)
CompareCatchIsOffline(msg) ==
  Includes(msg, <<"vehicle", "unavailable">>) \/ Includes(msg, <<"408">>)

\* what processDataForTeslaMate / calculateTeslaMateHealthScore throw on raw
CompareThrown(raw) == IF raw.present THEN NoError ELSE UndefinedReadMessage

CompareRunDone ==
  /\ UNCHANGED <<scoreVars, pairVars, historyVars>>
  /\ tpc = "run"
  /\ pc = "done"
  /\ IF ~result.success
       THEN \* createOfflineComparison: await getVehicleState(vehicleId)
            /\ tpc' = "offline_probe"
            /\ UNCHANGED <<comparison, compareThrew, screenVars>>
       ELSE IF CompareThrown(result.vehicleData) # NoError
              THEN IF CompareCatchIsOffline(CompareThrown(result.vehicleData))
                     THEN /\ tpc' = "offline_probe"
                          /\ UNCHANGED <<comparison, compareThrew, screenVars>>
                     ELSE \* throw error
                          /\ tpc' = "rejected"
                          /\ compareThrew' = CompareThrown(result.vehicleData)
                          /\ UNCHANGED comparison
                          /\ ScreenOnSettle(CompareThrown(result.vehicleData),
                                            ppc = "resolved", primaryData, FALSE, comparison)
              ELSE /\ tpc' = "resolved"
                   /\ comparison' = LiveComparison(result.vehicleData)
                   /\ UNCHANGED compareThrew
                   /\ ScreenOnSettle(NoError, ppc = "resolved", primaryData, TRUE,
                                     LiveComparison(result.vehicleData))
  /\ UNCHANGED <<runVars, device, net, assessVars, primaryVars>>

\* createOfflineComparison: getVehicleState has resolved (its catch maps a
\* failure to {state: 'unknown'})
CompareOfflineProbeDone ==
  /\ UNCHANGED <<scoreVars, pairVars, historyVars>>
  /\ tpc = "offline_probe"
  /\ \E vs \in ProbeResults :
       /\ tpc' = "resolved"
       /\ comparison' = OfflineComparison(vs, result.error)
       /\ UNCHANGED compareThrew
       /\ ScreenOnSettle(NoError, ppc = "resolved", primaryData, TRUE,
                         OfflineComparison(vs, result.error))
  /\ UNCHANGED <<runVars, device, net, assessVars, primaryVars>>

\* the device's telemetry changes
DeviceUpdate ==
  /\ \E d \in DeviceSnapshots \ {device} : device' = d
  /\ UNCHANGED <<runVars, callerVars>>

NextCompare ==
  \/ RunComparisonStart
  \/ PrimaryWakeDone
  \/ PrimaryDataOk
  \/ PrimaryDataError
  \/ CompareRunDone
  \/ CompareOfflineProbeDone
  \/ DeviceUpdate
  \/ FetchWakeDone
  \/ FetchDataOk
  \/ FetchDataError
  \/ SendWakeDone
  \/ SleepDone

SpecCompare == InitCompare /\ [][NextCompare]_vars

RunStep ==
  \/ FetchWakeDone
  \/ FetchDataOk
  \/ FetchDataError
  \/ SendWakeDone
  \/ SleepDone

Next ==
  \/ Start
  \/ FetchWakeDone
  \/ FetchDataOk
  \/ FetchDataError
  \/ SendWakeDone
  \/ SleepDone
  \/ Cancel
  \/ NetworkHang

Spec == Init /\ [][Next]_vars

TypeOK ==
  /\ pc \in {"idle", "fetch_wake", "fetch_data", "send_wake", "sleep", "done"}
  /\ phase \in {"direct", "initwake", "poll"}
  /\ now \in Nat
  /\ attempts \in Nat
  /\ result.set = (pc = "done")

(***************************************************************************)
(* Fairness: the JavaScript event loop runs every continuation whose await *)
(* has settled; nothing forces the network to answer or a caller to cancel.*)
(***************************************************************************)
FairSpec == Spec /\ WF_vars(Start) /\ WF_vars(RunStep)

\* the outcome a WakeUpResult stands for
Outcome(r) ==
  IF r.success THEN "Online"
  ELSE IF r.timeoutReached THEN "TimedOut"
  ELSE "Error"

rewakeIntervalMs == rewakeModulo

MinWakeCommands == (wakeUpTimeout + rewakeIntervalMs - 1) \div rewakeIntervalMs

(***************************************************************************)
(* C1: if the direct fetch of the snapshot succeeds, no wake command has   *)
(* been sent in that run, counting the wake_up requests issued inside the  *)
(* fetch primitive as well as the orchestrator's own commands.             *)
(***************************************************************************)
C1_NoWakeWhenDirectFetchSucceeds ==
  (pc = "done" /\ result.success /\ phase = "direct")
     => (wakeCmds = 0 /\ fetchWakePosts = 0)

(***************************************************************************)
(* C2: a run whose every fetch failed with an asleep/offline error ends in *)
(* WakeTimeout no later than wakeUpTimeout + checkInterval after it began. *)
(***************************************************************************)
C2_TimeoutWithinBudget ==
  (pc = "done" /\ allNeedWake)
     => (result = TimeoutResult /\ now - runStart <= wakeUpTimeout + checkInterval)

(***************************************************************************)
(* C3: a run that ends in WakeTimeout has sent at least                    *)
(* ceil(wakeUpTimeout / rewakeIntervalMs) = 4 wake commands.               *)
(***************************************************************************)
C3_AtLeastFourWakeCommands ==
  (pc = "done" /\ result.timeoutReached) => wakeCmds >= MinWakeCommands

(***************************************************************************)
(* C4: once the caller has raised its cancellation signal, the run starts  *)
(* no further fetch and sends no further wake command, and when it ends    *)
(* its outcome is Cancelled.                                               *)
(***************************************************************************)
C4_CancelAbortsRun ==
  [][cancelRequested =>
       /\ fetches' = fetches
       /\ wakeCmds' = wakeCmds
       /\ (pc # "done" /\ pc' = "done" => Outcome(result') = "Cancelled")]_vars

(***************************************************************************)
(* C5: every orchestration run reaches a terminal outcome, also when a     *)
(* network call never responds.                                            *)
(***************************************************************************)
C5_RunTerminates == <>(pc = "done")

(***************************************************************************)
(* C6: a fetch failure whose message names none of the asleep/offline      *)
(* needles ends the run at once in the Error outcome carrying that message,*)
(* returned as a value, with no further fetch and no further wake command. *)
(***************************************************************************)
C6_UnclassifiedErrorEndsRun ==
  [][/\ (fatalCause' # fatalCause) =>
          /\ pc' = "done"
          /\ result' = ErrorResult(fatalCause')
          /\ ~threw'
          /\ fetches' = fetches
          /\ wakeCmds' = wakeCmds
          /\ fetchWakePosts' = fetchWakePosts
     /\ (pc = "done") =>
          /\ pc' = "done"
          /\ result' = result
          /\ fetches' = fetches
          /\ wakeCmds' = wakeCmds
          /\ fetchWakePosts' = fetchWakePosts]_vars

C6_Witness ==
  /\ pc = "done"
  /\ phase = "poll"
  /\ attempts >= 2
  /\ fatalCause = HttpErrorMessage("500", <<"internal", "error">>)
  /\ result = ErrorResult(fatalCause)

(***************************************************************************)
(* C7: whatever the result of a wake command, sendWakeUpCommand does not   *)
(* reject: the run goes on to polling (or to the timeout the clock         *)
(* decides), and a terminal Error outcome always carries a fetch's error.  *)
(***************************************************************************)
C7_WakeCommandIsBestEffort ==
  [][/\ (pc = "send_wake" /\ pc' # "send_wake") =>
          /\ ~threw'
          /\ pc' \in {"sleep", "done"}
          /\ (phase = "initwake" => pc' = "sleep")
          /\ (pc' = "done" => result' = TimeoutResult)
     /\ (pc' = "done" /\ Outcome(result') = "Error") =>
          (fatalCause' # NoError /\ result'.error = fatalCause')]_vars

C7_Witness ==
  /\ pc = "sleep"
  /\ lastWake = "exception"
  /\ wakeCmds >= 2

(***************************************************************************)
(* C8: a wake timeout reaches the caller as a value: neither               *)
(* getVehicleDataWithWakeUp nor getBatteryHealthAssessment rejects when    *)
(* the run ended in WakeTimeout, whatever the probed device state.         *)
(***************************************************************************)
C8_TimeoutIsNotThrown ==
  (epc = "done" /\ result.timeoutReached) => (~threw /\ assessThrew = NoError)

(***************************************************************************)
(* C9: getBatteryHealthComparison never rejects: whatever the run resolved  *)
(* to it returns a value, and when the device was not reached that value   *)
(* is the offline comparison built from the constant mock results.         *)
(***************************************************************************)
C9_ComparisonNeverThrows ==
  (tpc \in {"resolved", "rejected"}) =>
     /\ tpc = "resolved"
     /\ compareThrew = NoError
     /\ (~result.success =>
            /\ comparison.isOfflineComparison
            /\ ~comparison.success
            /\ comparison.mockResults = MockTeslaMateResults)

(***************************************************************************)
(* C10: in a live comparison the primary and the secondary result are      *)
(* computed from the same snapshot.                                        *)
(***************************************************************************)
C10_SameSnapshot ==
  (spc = "done" /\ comparisonData.kind = "live")
     => comparisonData.current = comparisonData.teslaMate

(***************************************************************************)
(* The scoring inside getBatteryHealthAssessment, after the raw snapshot   *)
(* has been obtained: validateVehicleData, then calculateBatteryHealthFixed.*)
(* Both are synchronous; an error either throws leaves the assessment      *)
(* rejected with it.                                                       *)
(***************************************************************************)
InitScore ==
  /\ InitRun
  /\ InitCallers
  /\ InitPairIdle
  /\ InitHistoryIdle
  /\ device = LiveSnapshot
  /\ net = PromptNetwork
  /\ service \in Services
  /\ rawData \in RawSnapshots
  /\ hpc = "raw"
  /\ validated = NoValidated
  /\ health = NoHealth
  /\ healthThrew = NoError

ValidateData ==
  /\ hpc = "raw"
  /\ IF validateVehicleData(service, rawData).threw # NoError
       THEN /\ hpc' = "threw"
            /\ healthThrew' = validateVehicleData(service, rawData).threw
            /\ UNCHANGED validated
       ELSE /\ hpc' = "validated"
            /\ validated' = validateVehicleData(service, rawData).value
            /\ UNCHANGED healthThrew
  /\ UNCHANGED <<service, rawData, health>>
  /\ UNCHANGED <<runVars, device, net, assessVars, teslaMateVars, primaryVars, screenVars,
                 pairVars, historyVars>>

CalculateHealth ==
  /\ hpc = "validated"
  /\ hpc' = "done"
  /\ health' = calculateBatteryHealthFixed(service, validated)
  /\ UNCHANGED <<service, rawData, validated, healthThrew>>
  /\ UNCHANGED <<runVars, device, net, assessVars, teslaMateVars, primaryVars, screenVars,
                 pairVars, historyVars>>

NextScore ==
  \/ ValidateData
  \/ CalculateHealth

SpecScore == InitScore /\ [][NextScore]_vars

(***************************************************************************)
(* C11: probing an id that is absent from the device list fails with       *)
(* DeviceNotFound, and a transport failure while the list is read fails    *)
(* with TransientError; in neither case does the probe resolve to an       *)
(* ordinary device state.                                                  *)
(***************************************************************************)
DeviceNotFoundMessage == <<"DeviceNotFound">>

TransientErrorMessage == <<"TransientError">>

C11_ProbeFailuresAreErrors ==
  /\ (deviceList.kind = "absent") => probeError = DeviceNotFoundMessage
  /\ (deviceList.kind = "transport") => probeError = TransientErrorMessage

(***************************************************************************)
(* C12: the composite health score of every validated snapshot is an       *)
(* integer between 0 and 100, for both scoring implementations.            *)
(***************************************************************************)
C12_ScoreWithinBounds ==
  (hpc = "done") =>
     /\ IsInteger(health.overallHealthScore)
     /\ Le(Zero, health.overallHealthScore)
     /\ Le(health.overallHealthScore, Num(100))

(***************************************************************************)
(* C13: for every validated snapshot the reported range degradation lies   *)
(* in [0, 30] and the reported capacity degradation in [0, 25], in [0, 20] *)
(* when it comes from the range fallback, on every scoring path.           *)
(***************************************************************************)
C13_DegradationsClamped ==
  (hpc = "done") =>
     /\ Le(Zero, health.rangeDegradation)
     /\ Le(health.rangeDegradation, Num(30))
     /\ Le(Zero, health.capacityDegradation)
     /\ Le(health.capacityDegradation, Num(25))
     /\ (health.capacityPath = "rangeFallback" =>
           Le(health.capacityDegradation, Num(20)))

(***************************************************************************)
(* C14 as stated: the snapshot {batteryLevel 78, usableBatteryLevel 74,    *)
(* currentRange 402, idealRange 460, Model 3, odometer 32750} is scored    *)
(* rangeDegradation 12.6, capacityDegradation 10.1 from the range          *)
(* fallback, estimatedCycles 74, overallScore 72, grade Fair.              *)
(***************************************************************************)
ScenarioScored == hpc = "done" /\ service = "Fixed" /\ rawData = BaseRawData

C15_ValidatorIsTotal == (hpc # "threw") /\ (healthThrew = NoError)

(***************************************************************************)
(* C16: every numeric field of every validated snapshot is a finite        *)
(* number that is not negative.                                            *)
(***************************************************************************)
C16_NumericFieldsFiniteNonNegative ==
  (hpc \in {"validated", "done"}) =>
     \A x \in NumericFields(validated) : IsFinite(x) /\ x.n >= 0

(***************************************************************************)
(* C17: validation is idempotent: a validated snapshot handed back to      *)
(* validateVehicleData as its raw input is returned with the same field    *)
(* values.                                                                 *)
(***************************************************************************)
C17_ValidationIdempotent ==
  (hpc \in {"validated", "done"}) =>
     validateVehicleData(service, AsRawData(validated)) =
        [threw |-> NoError, value |-> validated]

(***************************************************************************)
(* C18: within one run the calls of getVehicleData and sendWakeUpCommand   *)
(* are strictly sequential: never are two of them in flight, and a call is *)
(* started only when every call started before it has settled.             *)
(***************************************************************************)
CallsStarted == fetches + wakeCmds

C18_CallsAreSequential ==
  [][/\ CallsStarted' - settled' \in {0, 1}
     /\ (CallsStarted' # CallsStarted) =>
          (CallsStarted' = CallsStarted + 1 /\ settled' = CallsStarted)]_vars

C18_Witness ==
  /\ pc = "done"
  /\ result.timeoutReached
  /\ wakeCmds >= 2
  /\ fetches >= 10
  /\ settled = fetches + wakeCmds

(***************************************************************************)
(* C20: while polling, when a poll fetch fails with an asleep/offline      *)
(* error, the elapsed time of the poll loop is below wakeUpTimeout and at  *)
(* least rewakeIntervalMs have passed since the last wake command was      *)
(* sent, the wake command is sent again before the next poll.              *)
(***************************************************************************)
C20_RewakeAfterInterval ==
  [][(/\ net.recordsWakeTimes
      /\ phase = "poll"
      /\ pc \in {"fetch_wake", "fetch_data"}
      /\ pc' \notin {"fetch_wake", "fetch_data"}
      /\ ~result'.success
      /\ fatalCause' = fatalCause
      /\ LoopContinues(now' - startTime)
      /\ now' - lastWakeAt >= rewakeIntervalMs)
       => pc' = "send_wake"]_vars

(***************************************************************************)
(* Two invocations of getVehicleDataWithWakeUp, for two vehicle ids, on    *)
(* one VehicleWakeService.  What the getVehicleData calls of an invocation *)
(* do is fixed by its plan: the first asleepFetches calls fail with a 408, *)
(* the later ones do what `last` says; every network call of the           *)
(* invocation takes plan.latency.  The event loop resumes the invocation   *)
(* whose await settles first; invocations whose awaits settle at the same  *)
(* time are resumed in either order.                                       *)
(***************************************************************************)
MaxAsleepFetches == 2

StartOffsets == {0, wakeSettleMs, checkInterval}

Plans ==
  [asleepFetches : 0..MaxAsleepFetches, last : {"data", "fatal", "asleep"},
   latency : Latencies]

\* what the i-th getVehicleData call of an invocation does
FetchOutcome(plan, i) == IF i <= plan.asleepFetches THEN "asleep" ELSE plan.last

AsleepFetchError == HttpErrorMessage("408", << >>)

FatalFetchError == HttpErrorMessage("500", <<"internal", "error">>)

\* a plausible slip: startTime and attempts kept as fields of the one service
\* object instead of locals of the call
FrameOf_shared(d) == 1

\* wakeUpAndGetData: `const startTime`, `let attempts` are locals, so every
\* invocation has a frame of its own
FrameOf(d) == d

\* tryGetVehicleData: await teslaAuth.getVehicleData(vehicleId), which waits
\* wakeSettleMs after its wake_up request
CallFetch(r, t, plan) ==
  [r EXCEPT !.pc = "fetch", !.fetches = @ + 1, !.calls = Append(@, "fetch"),
            !.due = t + wakeSettleMs + plan.latency]

\* await this.sendWakeUpCommand(vehicleId)
CallWake(r, t, plan) ==
  [r EXCEPT !.pc = "wake", !.calls = Append(@, "wake"), !.due = t + plan.latency]

\* the head of the while loop, evaluated at time t
PairLoopHead(r, f, t) ==
  IF LoopContinues(t - f.startTime)
    THEN [run   |-> [r EXCEPT !.pc = "sleep", !.due = t + checkInterval],
          frame |-> [f EXCEPT !.attempts = @ + 1]]
    ELSE [run   |-> [r EXCEPT !.pc = "done", !.result = TimeoutResult],
          frame |-> f]

\* the invocation returns res
Finish(r, f, res) ==
  [run |-> [r EXCEPT !.pc = "done", !.result = res], frame |-> f]

\* the invocation r, with locals f, is resumed at time t
StepRun(r, f, t, plan) ==
  CASE r.pc = "idle" -> [run |-> CallFetch(r, t, plan), frame |-> f]
    [] r.pc = "fetch" ->
         LET o   == FetchOutcome(plan, r.fetches)
             msg == IF o = "asleep" THEN AsleepFetchError ELSE FatalFetchError
         IN IF o = "data" THEN Finish(r, f, OnlineResult(LiveSnapshot))
            ELSE IF ~NeedsWake(msg) THEN Finish(r, f, ErrorResult(msg))
            ELSE IF r.phase = "direct"
              THEN [run |-> [CallWake(r, t, plan) EXCEPT !.phase = "initwake"],
                    frame |-> f]
            ELSE IF ShouldRewake(t - f.startTime)
              THEN [run |-> CallWake(r, t, plan), frame |-> f]
            ELSE PairLoopHead(r, f, t)
    [] r.pc = "wake" ->
         IF r.phase = "initwake"
           THEN PairLoopHead([r EXCEPT !.phase = "poll"],
                             [startTime |-> t, attempts |-> 0], t)
           ELSE PairLoopHead(r, f, t)
    [] r.pc = "sleep" -> [run |-> CallFetch(r, t, plan), frame |-> f]
    [] OTHER -> [run |-> r, frame |-> f]

\* the invocation run to its end with nothing else on the event loop
RECURSIVE RunAlone(_, _, _)
RunAlone(r, f, plan) ==
  IF r.pc = "done"
    THEN r
    ELSE RunAlone(StepRun(r, f, r.due, plan).run, StepRun(r, f, r.due, plan).frame, plan)

InitPair ==
  /\ InitRun
  /\ InitCallers
  /\ InitScoreIdle
  /\ InitHistoryIdle
  /\ device = LiveSnapshot
  /\ net = PromptNetwork
  /\ clock = 0
  /\ plans \in [Devices -> Plans]
  /\ \E off \in StartOffsets : runs = [d \in Devices |-> RunAt(IF d = 1 THEN 0 ELSE off)]
  /\ frames = [d \in Devices |-> NoFrame]
  /\ alone = [d \in Devices |-> RunAlone(runs[d], NoFrame, plans[d])]

\* the event loop resumes the invocation for d: no other await settles earlier
Resume(d) ==
  /\ runs[d].pc # "done"
  /\ \A e \in Devices : runs[e].pc # "done" => runs[d].due <= runs[e].due
  /\ clock' = runs[d].due
  /\ runs' = [runs EXCEPT
               ![d] = StepRun(runs[d], frames[FrameOf(d)], runs[d].due, plans[d]).run]
  /\ frames' = [frames EXCEPT
                 ![FrameOf(d)] =
                    StepRun(runs[d], frames[FrameOf(d)], runs[d].due, plans[d]).frame]
  /\ UNCHANGED <<plans, alone>>
  /\ UNCHANGED <<runVars, device, net, assessVars, teslaMateVars, primaryVars, screenVars,
                 scoreVars, historyVars>>

PairBegin == \E d \in Devices : runs[d].pc = "idle" /\ Resume(d)

PairFetchDone == \E d \in Devices : runs[d].pc = "fetch" /\ Resume(d)

PairWakeDone == \E d \in Devices : runs[d].pc = "wake" /\ Resume(d)

PairSleepDone == \E d \in Devices : runs[d].pc = "sleep" /\ Resume(d)

NextPair ==
  \/ PairBegin
  \/ PairFetchDone
  \/ PairWakeDone
  \/ PairSleepDone

SpecPair == InitPair /\ [][NextPair]_vars

IsPrefix(s, t) == Len(s) <= Len(t) /\ SubSeq(t, 1, Len(s)) = s

(***************************************************************************)
(* C19: runs for two distinct vehicle ids, interleaved in any order the    *)
(* event loop allows, are independent: the outbound calls of each run are  *)
(* at every moment a prefix of the calls it makes when run alone with the  *)
(* same fetch results, and when it ends its calls and its result are those *)
(* of the run alone.                                                       *)
(***************************************************************************)
C19_RunsAreIndependent ==
  \A d \in Devices :
     /\ IsPrefix(runs[d].calls, alone[d].calls)
     /\ (runs[d].pc = "done") =>
          (runs[d].calls = alone[d].calls /\ runs[d].result = alone[d].result)

C19_Witness ==
  /\ \A d \in Devices : runs[d].pc = "done"
  /\ runs[1].result.timeoutReached
  /\ runs[2].result.success
  /\ Len(runs[1].calls) > 10
  /\ Len(runs[2].calls) >= 3
  /\ frames[1].startTime # frames[2].startTime

(***************************************************************************)
(* C21: when a poll fetch fails with an asleep/offline error and the       *)
(* elapsed time of the poll loop is at or beyond wakeUpTimeout, the run    *)
(* ends at once with the timeout result: no wake command and no fetch is   *)
(* issued after that failed fetch.                                         *)
(***************************************************************************)
C21_TimeoutEndsRunAtOnce ==
  [][(/\ phase = "poll"
      /\ pc \in {"fetch_wake", "fetch_data"}
      /\ pc' \notin {"fetch_wake", "fetch_data"}
      /\ ~result'.success
      /\ fatalCause' = fatalCause
      /\ ~LoopContinues(now' - startTime))
       => (/\ pc' = "done"
           /\ result' = TimeoutResult
           /\ wakeCmds' = wakeCmds
           /\ fetches' = fetches)]_vars

(***************************************************************************)
(* C22: a device last seen more than 24 hours ago is only advised against: *)
(* an assessment requested with attemptWakeUp = true for such a device     *)
(* that is asleep or offline still runs the wake orchestration.            *)
(***************************************************************************)
C22_StaleDeviceStillWoken ==
  (/\ epc = "done"
   /\ attemptWakeUp
   /\ vehicleState.state \in {"asleep", "offline"}
   /\ vehicleState.lastSeen # NoLastSeen
   /\ vehicleState.lastSeen > 24 * HourMs)
    => (fetches >= 1 /\ wakeCmds >= 1)

(***************************************************************************)
(* C25: the two wake advisories never disagree: an offline assessment of a *)
(* device that is not online and that shouldAttemptWakeUp refuses to wake  *)
(* carries the wake-up likelihood 'low'.                                   *)
(***************************************************************************)
C25_AdvisoriesAgree ==
  (/\ epc = "done"
   /\ assessment.isOfflineAssessment
   /\ vehicleState.state # "online"
   /\ ~shouldAttemptWakeUp(vehicleState))
    => assessment.wakeUpLikelihood = "low"

(***************************************************************************)
(* C26: an assessment requested with attemptWakeUp = false for a device    *)
(* whose probed state is not 'online' resolves to an offline assessment    *)
(* right after the device-list read: no snapshot fetch, no wake command.   *)
(***************************************************************************)
C26_NoWakeOptionReadsOnly ==
  /\ (epc \in {"run_online", "run_wake", "catch_probe"} /\ ~attemptWakeUp)
       => vehicleState.state = "online"
  /\ (epc = "done" /\ ~attemptWakeUp /\ vehicleState.state # "online")
       => (/\ assessment.isOfflineAssessment
           /\ assessment.error = NotAttemptedMessage
           /\ assessThrew = NoError
           /\ pc = "idle"
           /\ fetches = 0
           /\ fetchWakePosts = 0
           /\ wakeCmds = 0)

C26_Witness ==
  /\ epc = "done"
  /\ ~attemptWakeUp
  /\ deviceList.kind = "found"
  /\ vehicleState.state = "asleep"
  /\ shouldAttemptWakeUp(vehicleState)
  /\ assessment.isOfflineAssessment
  /\ fetches = 0

(***************************************************************************)
(* C23: the mileage penalty of the composite score is 0 below 100000, 5    *)
(* from 100000 to below 150000, 10 from 150000 to below 200000 and 15 from *)
(* 200000 on, for every integer odometer, the thresholds included.         *)
(***************************************************************************)
C23_MileagePenaltySteps ==
  (hpc = "done" /\ service = "Fixed" /\ IsInteger(validated.odometer))
    => mileagePenalty(validated.odometer) =
         (IF validated.odometer.n < 100000 THEN 0
          ELSE IF validated.odometer.n < 150000 THEN 5
          ELSE IF validated.odometer.n < 200000 THEN 10
          ELSE 15)

(***************************************************************************)
(* The secondary algorithm on its inputs.  getBatteryHealthComparison      *)
(* hands the raw snapshot to processDataForTeslaMate and the history built *)
(* from it to calculateTeslaMateHealthScore (stages raw, processed, done); *)
(* calculateTeslaMateHealthScore is also applied to a given history of any *)
(* length (stages given, scored).                                          *)
(***************************************************************************)
TeslaMateSnapshots ==
  { [BaseRawData EXCEPT !.charge_state.f.battery_range = r,
                        !.charge_state.f.usable_battery_level = u,
                        !.charge_state.f.battery_level = b,
                        !.charge_state.f.charge_energy_added = e,
                        !.charge_state.f.charge_miles_added_rated = m] :
      r \in {JsUndefined, JsNull, JsNumber(Zero), JsNumber(Num(410)), JsNumber(Num(300))},
      u \in {JsUndefined, JsNumber(Zero), JsNumber(Num(74)), JsNumber(Num(50))},
      b \in {JsUndefined, JsNumber(Num(78)), JsNumber(Num(100))},
      e \in {JsUndefined, JsNumber(Fin(125, 10)), JsNumber(Num(30))},
      m \in {JsNumber(Zero), JsNumber(Num(48))} }

ChargeRecord(usable, energy) ==
  [ratedBatteryRangeKm |-> Num(400), usableBatteryLevel |-> Num(usable),
   chargeEnergyAdded |-> energy, batteryLevel |-> Num(80)]

\* a history of `accepted` charges the capacity calculation accepts, `small`
\* charges with less energy than the efficiency and `empty` charges with no
\* usable level
GivenHistory(accepted, small, empty) ==
  [NoHistory EXCEPT
     !.charges = [i \in 1..accepted |-> ChargeRecord(74, Num(30))]
                 \o [i \in 1..small |-> ChargeRecord(74, Fin(1, 10))]
                 \o [i \in 1..empty |-> ChargeRecord(0, Num(30))]]

GivenHistories ==
  { GivenHistory(a, s, e) : a \in {0, 19, 20, 21, 49, 50, 51}, s \in {0, 1}, e \in {0, 1} }

InitTeslaMate ==
  /\ InitRun
  /\ InitCallers
  /\ InitScoreIdle
  /\ InitPairIdle
  /\ device = LiveSnapshot
  /\ net = PromptNetwork
  /\ draws \in RandomPatterns
  /\ teslaMateResults = NoTeslaMateResults
  /\ \/ /\ tmStage = "raw"
        /\ tmRawData \in TeslaMateSnapshots
        /\ processedData = NoHistory
     \/ /\ tmStage = "given"
        /\ tmRawData = EmptyRawData
        /\ draws = "low"
        /\ processedData \in GivenHistories

\* const processedData = this.processDataForTeslaMate(rawData)
ProcessData ==
  /\ tmStage = "raw"
  /\ tmStage' = "processed"
  /\ processedData' = processDataForTeslaMate(tmRawData, draws)
  /\ UNCHANGED <<tmRawData, draws, teslaMateResults>>
  /\ UNCHANGED <<runVars, device, net, assessVars, teslaMateVars, primaryVars, screenVars,
                 scoreVars, pairVars>>

\* const teslaMateResults = this.calculateTeslaMateHealthScore(processedData)
CalculateTeslaMate ==
  /\ tmStage \in {"processed", "given"}
  /\ tmStage' = IF tmStage = "processed" THEN "done" ELSE "scored"
  /\ teslaMateResults' = calculateTeslaMateHealthScore(processedData)
  /\ UNCHANGED <<tmRawData, draws, processedData>>
  /\ UNCHANGED <<runVars, device, net, assessVars, teslaMateVars, primaryVars, screenVars,
                 scoreVars, pairVars>>

NextTeslaMate ==
  \/ ProcessData
  \/ CalculateTeslaMate

SpecTeslaMate == InitTeslaMate /\ [][NextTeslaMate]_vars

(***************************************************************************)
(* C24: the confidence level of the secondary algorithm is High with 50 or *)
(* more valid charge records, Medium with 20 to 49, Low otherwise, exactly *)
(* 20 and exactly 50 included; a valid charge record is one the capacity   *)
(* calculation accepts.                                                    *)
(***************************************************************************)
AcceptedCharges ==
  Cardinality({i \in 1..Len(processedData.charges) :
                 AcceptedForCapacity(processedData.charges[i],
                                     teslaMateResults.efficiency)})

C27_DivisorIsPositive ==
  (tmStage = "done")
    => (/\ Gt(teslaMateResults.maxCapacity, Zero)
        /\ Gt(teslaMateResults.baselineCapacity, Zero)
        /\ IsFinite(teslaMateResults.chargeCycles))

(***************************************************************************)
(* C28: the history built from a live snapshot has exactly 13 charge       *)
(* records, 16 charging processes and 31 range records; the number of      *)
(* valid charge records is at most 13 and the confidence level is 'Low'.   *)
(***************************************************************************)
C28_HistoryIsBounded ==
  /\ (tmStage \in {"processed", "done"})
       => (/\ Len(processedData.charges) = 13
           /\ Len(processedData.processes) = 16
           /\ Len(processedData.rangeData) = 31)
  /\ (tmStage = "done")
       => (/\ teslaMateResults.validCharges <= 13
           /\ AcceptedCharges <= 13
           /\ teslaMateResults.totalDataPoints = 60
           /\ teslaMateResults.confidenceLevel = "Low")

C28_Witness ==
  /\ tmStage = "done"
  /\ tmRawData = BaseRawData
  /\ teslaMateResults.validCharges = 13
  /\ teslaMateResults.confidenceLevel = "Low"
  /\ Len(processedData.rangeData) = 31

(***************************************************************************)
(* AlgorithmComparisonScreen with several calls of runComparison under     *)
(* way.  useEffect calls checkVehicleAndRun when the screen is mounted and *)
(* again whenever vehicleId changes; nothing cancels the earlier call, and *)
(* every call writes the same four pieces of state.  The two promises of a *)
(* call settle with what the two services can resolve to or reject with.   *)
(***************************************************************************)
MaxInvocations == 2

NewInvocation(id) ==
  [vehicleId |-> id, stage |-> "await_all", primary |-> "pending",
   teslaMate |-> "pending", currentResults |-> NoData,
   teslaMateResults |-> NoComparison]

\* runComparison up to its await: setLoading(true); setError(null);
\* setIsOfflineComparison(false)
RunComparisonBegins(id) ==
  /\ loading' = TRUE
  /\ screenError' = NoError
  /\ isOfflineComparison' = FALSE
  /\ invocations' = Append(invocations, NewInvocation(id))
  /\ UNCHANGED <<spc, comparisonData>>

\* runOfflineDemo: it has no await, so it runs to its end in one step
RunOfflineDemo ==
  /\ loading' = FALSE
  /\ screenError' = NoError
  /\ isOfflineComparison' = TRUE
  /\ comparisonData' = DemoComparisonData

\* runComparison after await Promise.all: rej is the message the await threw
\* (NoError: it resolved to [currentResults, teslaMateResults])
RunComparisonResumes(rej, currentResults, tmResults) ==
  IF rej # NoError
    THEN IF ScreenCatchIsOffline(rej)
           THEN RunOfflineDemo
           ELSE /\ screenError' = rej
                /\ loading' = FALSE
                /\ UNCHANGED <<isOfflineComparison, comparisonData>>
    ELSE IF tmResults.isOfflineComparison
           THEN RunOfflineDemo
           ELSE /\ comparisonData' = LiveComparisonData(currentResults, tmResults.rawData)
                /\ loading' = FALSE
                /\ UNCHANGED <<isOfflineComparison, screenError>>

\* the snapshots an assessment can be computed from
ScoredSnapshots == { d \in DeviceSnapshots : d.present }

\* what BatteryHealthService.getBatteryHealthAssessment rejects with
PrimaryRejections == {NoTokensMessage, UndefinedReadMessage} \cup DataErrorMessages

\* what TeslaMateAlgorithmService.getBatteryHealthComparison resolves to
ComparisonValues ==
  { LiveComparison(d) : d \in ScoredSnapshots }
    \cup { OfflineComparison(vs, TimeoutMessage) : vs \in ProbeResults }

\* what it rejects with
ComparisonRejections == {UndefinedReadMessage}

InitScreen ==
  /\ InitRun
  /\ InitCallers
  /\ InitScoreIdle
  /\ InitPairIdle
  /\ InitHistoryIdle
  /\ device = LiveSnapshot
  /\ net = PromptNetwork

\* useEffect(() => { checkVehicleAndRun() }, [vehicleId]): the first render
ScreenMounts ==
  /\ invocations = << >>
  /\ RunComparisonBegins(vehicleId)
  /\ UNCHANGED vehicleId
  /\ UNCHANGED <<runVars, device, net, assessVars, teslaMateVars, primaryVars,
                 scoreVars, pairVars, historyVars>>

\* the screen is rendered with another vehicleId: the effect runs again
VehicleIdChanges ==
  /\ invocations # << >>
  /\ Len(invocations) < MaxInvocations
  /\ \E id \in Devices \ {vehicleId} :
       /\ vehicleId' = id
       /\ RunComparisonBegins(id)
  /\ UNCHANGED <<runVars, device, net, assessVars, teslaMateVars, primaryVars,
                 scoreVars, pairVars, historyVars>>

\* the call i goes on after its await with rej / the two results
InvocationResumes(i, rej, currentResults, tmResults) ==
  /\ invocations' = [invocations EXCEPT ![i] =
                       [@ EXCEPT !.stage = "done",
                                 !.primary = IF rej = NoError THEN "resolved" ELSE @,
                                 !.teslaMate = IF rej = NoError THEN "resolved" ELSE @,
                                 !.currentResults = currentResults,
                                 !.teslaMateResults = tmResults]]
  /\ RunComparisonResumes(rej, currentResults, tmResults)

\* the primary assessment of call i resolves
PrimaryResolves(i) ==
  /\ i \in 1..Len(invocations)
  /\ invocations[i].stage = "await_all"
  /\ invocations[i].primary = "pending"
  /\ \E d \in ScoredSnapshots :
       IF invocations[i].teslaMate = "resolved"
         THEN InvocationResumes(i, NoError, d, invocations[i].teslaMateResults)
         ELSE /\ invocations' = [invocations EXCEPT ![i] =
                                   [@ EXCEPT !.primary = "resolved",
                                             !.currentResults = d]]
              /\ UNCHANGED <<loading, screenError, isOfflineComparison, comparisonData>>
  /\ UNCHANGED <<spc, vehicleId>>
  /\ UNCHANGED <<runVars, device, net, assessVars, teslaMateVars, primaryVars,
                 scoreVars, pairVars, historyVars>>

\* the primary assessment of call i rejects: Promise.all rejects at once
PrimaryRejectsCall(i) ==
  /\ i \in 1..Len(invocations)
  /\ invocations[i].stage = "await_all"
  /\ invocations[i].primary = "pending"
  /\ \E msg \in PrimaryRejections :
       InvocationResumes(i, msg, invocations[i].currentResults,
                         invocations[i].teslaMateResults)
  /\ UNCHANGED <<spc, vehicleId>>
  /\ UNCHANGED <<runVars, device, net, assessVars, teslaMateVars, primaryVars,
                 scoreVars, pairVars, historyVars>>

\* the comparison of call i resolves
ComparisonResolves(i) ==
  /\ i \in 1..Len(invocations)
  /\ invocations[i].stage = "await_all"
  /\ invocations[i].teslaMate = "pending"
  /\ \E cmp \in ComparisonValues :
       IF invocations[i].primary = "resolved"
         THEN InvocationResumes(i, NoError, invocations[i].currentResults, cmp)
         ELSE /\ invocations' = [invocations EXCEPT ![i] =
                                   [@ EXCEPT !.teslaMate = "resolved",
                                             !.teslaMateResults = cmp]]
              /\ UNCHANGED <<loading, screenError, isOfflineComparison, comparisonData>>
  /\ UNCHANGED <<spc, vehicleId>>
  /\ UNCHANGED <<runVars, device, net, assessVars, teslaMateVars, primaryVars,
                 scoreVars, pairVars, historyVars>>

\* the comparison of call i rejects
ComparisonRejectsCall(i) ==
  /\ i \in 1..Len(invocations)
  /\ invocations[i].stage = "await_all"
  /\ invocations[i].teslaMate = "pending"
  /\ \E msg \in ComparisonRejections :
       InvocationResumes(i, msg, invocations[i].currentResults,
                         invocations[i].teslaMateResults)
  /\ UNCHANGED <<spc, vehicleId>>
  /\ UNCHANGED <<runVars, device, net, assessVars, teslaMateVars, primaryVars,
                 scoreVars, pairVars, historyVars>>

NextScreen ==
  \/ ScreenMounts
  \/ VehicleIdChanges
  \/ \E i \in 1..MaxInvocations : PrimaryResolves(i)
  \/ \E i \in 1..MaxInvocations : PrimaryRejectsCall(i)
  \/ \E i \in 1..MaxInvocations : ComparisonResolves(i)
  \/ \E i \in 1..MaxInvocations : ComparisonRejectsCall(i)

SpecScreen == InitScreen /\ [][NextScreen]_vars

\* no call of runComparison is waiting and the screen renders comparisonData
ScreenShowsComparison ==
  /\ invocations # << >>
  /\ \A i \in 1..Len(invocations) : invocations[i].stage = "done"
  /\ ~loading
  /\ screenError = NoError
  /\ comparisonData.kind # "none"

(***************************************************************************)
(* C29: once every call of runComparison has settled, whatever their       *)
(* interleaving, comparisonData computed from live data is shown with      *)
(* isOfflineComparison = false and the demo comparisonData with            *)
(* isOfflineComparison = true.                                             *)
(***************************************************************************)
C29_SettledScreenIsConsistent ==
  ScreenShowsComparison
    => (isOfflineComparison <=> (comparisonData.kind = "demo"))

\* the three figures the two scoring engines both report
ReportedFigures(h) ==
  <<h.overallHealthScore, h.capacityDegradation, h.rangeDegradation>>

(***************************************************************************)
(* C30: for every validated snapshot the scoring of the wake-enabled       *)
(* assessment (EnhancedBatteryHealthService.calculateBatteryHealthFixed)   *)
(* returns the same overallHealthScore, capacityDegradation and            *)
(* rangeDegradation as the primary scoring engine                          *)
(* (FixedBatteryHealthService.calculateBatteryHealthFixed) on it.          *)
(***************************************************************************)
C30_EnginesAgree ==
  (hpc = "done")
    => (ReportedFigures(calculateBatteryHealthFixed("Enhanced", validated))
          = ReportedFigures(calculateBatteryHealthFixed("Fixed", validated)))

====
